---- MODULE Spec2Model ----
(***************************************************************************)
(* Model of the cr-sqlite tab synchronisation prototype:                   *)
(*   - the client's remote execution protocol (dbExec / handleWorkerMessage*)
(*     of CRSqliteWorkerClientBase) against the worker's exec handler,     *)
(*   - the topic naming of the shared-worker shim (stableName),            *)
(*   - the shared-worker shim itself: leader election, leader host,        *)
(*     bootstrap inside the dedicated worker and the virtual ports.        *)
(* Each part has its own specification; the variables of the other parts   *)
(* stay at their initial value under it.                                   *)
(***************************************************************************)
EXTENDS Integers, Sequences, FiniteSets, TLC

(***************************************************************************)
(* Bounds of the model.                                                    *)
(***************************************************************************)
\* number of dbExec calls one client issues
MaxExec == 3
\* number of worker handles acquired
MaxAcquire == 4
\* number of tabs that open the topic
NumTabs == 2
\* number of requests one tab posts on its virtual port
MaxSend == 1
\* number of elections in which a second tab is elected beside a leader
MaxSplit == 1
\* number of tabs that call terminate() or are closed
MaxGone == 1
\* number of clients that synchronise through the worker
NumClients == 2
\* number of requestSync() calls the clients make
MaxSync == 2
\* number of rows the application writes into the clients' local stores
MaxLocal == 2
\* number of rows written into the worker's store through dbExec
MaxWrite == 2
\* number of ports that connect to one worker
NumPorts == 2
\* number of messages that reach one worker
MaxMsg == 3
\* number of start() calls made on one client
MaxStart == 3
\* number of stop() calls made on one client
MaxStop == 2
\* number of payloads the workers post for the clients of one topic
MaxReply == 2
\* number of close() and terminate() calls made on one handle
MaxClose == 2
\* number of envelopes the relay of one leader host observes
MaxCmd == 5
\* number of cells the stores reject
MaxReject == 1
\* number of checkForLocalChanges() calls of one client that wait for their query
MaxOverlap == 2
\* number of worker instances that initialize over the store of an earlier one
MaxInit == 1
\* number of CRSqliteWorkerClientBase.stop() calls made on started clients
MaxBaseStop == 1

(***************************************************************************)
(* State.                                                                  *)
(***************************************************************************)
\* Part 1: one client of the remote execution protocol and its worker
VARIABLES
    isStarted,            \* client: this.isStarted
    port,                 \* client: "none" before start, "open", "null" after stop()
    execRequestCounter,   \* client: this.execRequestCounter
    pendingExecRequests,  \* client: Map requestId -> handlers; the handlers are
                          \*   the closures of one dbExec call, named by the call
    calls,                \* the dbExec calls made so far: [requestId, sql]
    promise,              \* per call: the state of the promise dbExec returned
    timers,               \* armed setTimeout callbacks: [requestId, call]
    toWorkerNet,          \* exec envelopes posted and not yet handled by the worker
    toClientNet,          \* worker responses posted and not yet handled by the client
    wExecSerial,          \* worker store: number of statements executed so far
    wResult,              \* what the worker answered to each requestId
    onErrorLog            \* requestIds of the envelopes handed to the onError callback

execVars == <<isStarted, port, execRequestCounter, pendingExecRequests, calls,
              promise, timers, toWorkerNet, toClientNet, wExecSerial, wResult,
              onErrorLog>>

\* Part 2: the worker handles acquired
VARIABLES
    acquired,     \* the worker handles acquired so far: [by, url, topic]
    nextTabId     \* number of CRSqliteTabSync instances constructed so far

nameVars == <<acquired, nextTabId>>

\* Part 3: the tabs of one topic, their electors, leader hosts and workers
VARIABLES
    pc,              \* per tab: where its createSharedWorkerShim call stands:
                     \*   "idle", "hasLeader" (suspended in await elector.hasLeader()),
                     \*   "done" (handle returned), "terminated" (cleanup ran),
                     \*   "closed" (the tab is gone)
    isLeader,        \* per tab: elector.isLeader
    isDead,          \* per tab: elector.die() was called
    dupPending,      \* per tab: elector.onduplicate is due
    thenPending,     \* per tab: awaitLeadership() resolved, its then-callback is due
    leaderReady,     \* per tab: let leaderReady
    readyInFlight,   \* per tab: a __shim_ready broadcast not yet handled by readyHandler
    leadersStarted,  \* per tab: leadersStarted.has(name)
    hosts,           \* per tab: the leader host it started and the worker inside
    sent,            \* per tab: number of requests posted on the virtual port
    received,        \* per tab: payloads the virtual port handed to its listeners
    splits,          \* number of elections that produced a second leader
    retAt,           \* per tab: on what grounds createSharedWorkerShim returned
    dupDone,         \* per tab: its onduplicate callback has completed
    lostLeader,      \* a hosting leader tab has closed
    sentAfter        \* per tab: requests posted after a new leader began hosting

shimVars == <<pc, isLeader, isDead, dupPending, thenPending, leaderReady,
              readyInFlight, leadersStarted, hosts, sent, received, splits,
              retAt, dupDone, lostLeader, sentAfter>>

\* Part 4: the tabs' clients, their local stores and the worker's store
VARIABLES
    cStarted,              \* per client: this.isStarted
    siteId,                \* per client: this.siteId, "null" until the store answered
    localDb,               \* per client: the change records of its local store
    lastBroadcastVersion,  \* per client: this.lastBroadcastVersion
    syncs,                 \* number of requestSync() calls made so far
    portIn,                \* per client: worker responses posted on its port, in order
    chanIn,                \* per client: "db-sync" broadcasts not yet handled, in order
    applyLog,              \* per client: what each applyChanges call did
    workerDb,              \* worker: the change records of its store
    lastDbVersion,         \* worker: this.lastDbVersion
    dbQueue,               \* worker: the store operations of its handlers, in order
    wLog,                  \* worker: the broadcasts and exec replies it issued, in order
    served,                \* per client: the store its last sync request was answered
                           \*   from and the change set of the answer
    rejects,               \* per store (0 is the worker's): the cells whose INSERT INTO
                           \*   crsql_changes throws in that store
    reads,                 \* per client: the lastBroadcastVersion arguments of the
                           \*   getChangesAfterVersion calls not yet answered, in order
    changesSent,           \* per client: the data of its "changes" broadcasts, in order
    syncHandler,           \* per client: this.onSyncDataReceived is set
    inits,                 \* worker: number of initialize() calls after the first
    stopCalls              \* number of stop() calls made on started clients

syncVars == <<cStarted, siteId, localDb, lastBroadcastVersion, syncs, portIn, chanIn,
              applyLog, workerDb, lastDbVersion, dbQueue, wLog, served, rejects, reads,
              changesSent, syncHandler, inits, stopCalls>>

\* Part 5: one worker (CRSqliteDedicatedWorker or CRSqliteSharedWorker) while it
\* starts, and the connections and messages that reach it
VARIABLES
    wClass,        \* "dedicated" or "shared": the class of the worker
    wPhase,        \* "created", "initializing" (start() awaits initialize()), "started"
    wPending,      \* dedicated: this.pending, the queued MessageEvents
    pendingPorts,  \* shared: this.pendingPorts
    wConnected,    \* the ports whose connect event the worker has seen
    wPortOpen,     \* per port: its message listener is attached and it was started
    wPortQ,        \* per port: messages the port holds and has not dispatched yet
    arrivals,      \* the messages that reached the worker, in arrival order, and
                   \*   whether the worker was still not started then
    handledLog     \* the handleClientMessage calls made, in order, with the answer

startVars == <<wClass, wPhase, wPending, pendingPorts, wConnected, wPortOpen, wPortQ,
               arrivals, handledLog>>

\* Part 6: one client through start(), stop(), dbExec() and requestSync()
VARIABLES
    klass,         \* the class of the client: "browser" or "tabsync"
    storeSiteId,   \* the local store answers SELECT crsql_site_id() with a site id
    client,        \* the fields of the client object
    reading,       \* start() calls that await the read of the site id
    life,          \* "stopped", "starting" or "running", by the calls made
    startLog,      \* how the promises of the start() calls settled, in order
    unhandled,     \* rejections of promises nobody holds
    made,          \* counts: worker handles acquired, channel subscriptions,
                   \*   initial sync requests and messages posted to the worker
    called,        \* counts of the start(), stop() and requestSync() calls
    execCalls,     \* the dbExec calls: the id, whether the promise settled,
                   \*   and the number of stop() calls before it
    postedStopped  \* a message was posted to the worker after stop()

lifeVars == <<klass, storeSiteId, client, reading, life, startLog, unhandled, made,
              called, execCalls, postedStopped>>

\* Part 7: the virtual ports of the tabs on one topic (createVirtualPort) with
\* the channels of their handles
VARIABLES
    vport,       \* per tab: the virtual port and the handle around it
    rxClient,    \* per tab: envelopes on their way to the tab's chanRxClient
    rxLeader,    \* per tab: envelopes on their way to the tab's chanRxLeader
    posted,      \* the envelopes posted on the topic so far
    seen,        \* per tab: the envelopes its toClientHandler was called with
    reached,     \* per tab: the payloads of those addressed to its port
    delivered,   \* per tab: the payloads handed to the port's listeners
    portCalls    \* counts: per tab the postMessage, close and terminate calls
                 \*   and the disconnect envelopes posted; the workers' replies

portVars == <<vport, rxClient, rxLeader, posted, seen, reached, delivered,
              portCalls>>


\* Part 8: the bootstrap of one leader host with the commands of its relay
VARIABLES
    boot,        \* the dedicated worker of the host: bootstrap and worker
    observed,    \* the envelopes toWorker of the host was called with, in order
    early        \* the <<clientId, n>> of the requests the bootstrap or a
                 \*   worker-side port has held back

bootVars == <<boot, observed, early>>


\* what an action of part 1 leaves alone
notExec == <<nameVars, shimVars, syncVars, startVars, lifeVars, portVars, bootVars>>
\* what an action of part 2 leaves alone
notName == <<execVars, shimVars, syncVars, startVars, lifeVars, portVars, bootVars>>
\* what an action of part 3 leaves alone
notShim == <<execVars, nameVars, syncVars, startVars, lifeVars, portVars, bootVars>>
\* what an action of part 4 leaves alone
notSync == <<execVars, nameVars, shimVars, startVars, lifeVars, portVars, bootVars>>
\* what an action of part 5 leaves alone
notStart == <<execVars, nameVars, shimVars, syncVars, lifeVars, portVars, bootVars>>
\* what an action of part 6 leaves alone
notLife == <<execVars, nameVars, shimVars, syncVars, startVars, portVars, bootVars>>
\* what an action of part 7 leaves alone
notPort == <<execVars, nameVars, shimVars, syncVars, startVars, lifeVars, bootVars>>
\* what an action of part 8 leaves alone
notBoot == <<execVars, nameVars, shimVars, syncVars, startVars, lifeVars, portVars>>

(***************************************************************************)
(* Part 1.  Client remote execution (CRSqliteWorkerClientBase.dbExec).     *)
(***************************************************************************)
\* SQL statements a caller may pass: one the store executes, one it rejects
SqlSet == {"insert", "invalid"}

NoRequestId == <<"none", 0>>
\* new Error("Database execution timeout")
TimeoutError == [kind |-> "timeout", n |-> 0]
\* what a throwing postMessage rejects the promise with
NotPosted == [kind |-> "throw", n |-> 0]
\* (execError as Error).message
SqlError == [kind |-> "error", n |-> 0]
\* the result of db.exec: told apart by the statement's serial number
ExecResult(n) == [kind |-> "rows", n |-> n]

\* `exec-${this.execRequestCounter++}`
RequestId(n) == <<"exec", n>>

Unsettled == [st |-> "pending", via |-> NoRequestId, val |-> [kind |-> "none", n |-> 0]]

\* settling a promise that is already settled has no effect
Settle(p, call, st, via, val) ==
    IF p[call].st = "pending"
    THEN [p EXCEPT ![call] = [st |-> st, via |-> via, val |-> val]]
    ELSE p

\* Map.set(requestId, handlers)
PendingSet(m, rid, call) ==
    [r \in (DOMAIN m) \cup {rid} |-> IF r = rid THEN call ELSE m[r]]

\* Map.delete(requestId)
PendingDelete(m, rid) == [r \in (DOMAIN m) \ {rid} |-> m[r]]

\* a lookup that takes whatever entry is pending, not the envelope's own
PendingLookupAny(rid) ==
    IF DOMAIN pendingExecRequests # {}
    THEN {CHOOSE r \in DOMAIN pendingExecRequests :
             \A q \in DOMAIN pendingExecRequests : r[2] <= q[2]}
    ELSE {}

\* requestId && this.pendingExecRequests.has(requestId): the entry an envelope settles
PendingLookup(rid) ==
    IF rid # NoRequestId /\ rid \in DOMAIN pendingExecRequests THEN {rid} ELSE {}

\* a dbExec that never arms its timer
ArmTimerNever(rid, call) == timers

\* timeout = setTimeout(..., 10000)
ArmTimer(rid, call) == timers \cup {[requestId |-> rid, call |-> call]}

\* resolve wrapper: if (timeout) clearTimeout(timeout)
ClearTimer(call) == {t \in timers : t.call # call}

InitExec ==
    /\ isStarted = FALSE
    /\ port = "none"
    /\ execRequestCounter = 0
    /\ pendingExecRequests = <<>>
    /\ calls = <<>>
    /\ promise = <<>>
    /\ timers = {}
    /\ toWorkerNet = {}
    /\ toClientNet = {}
    /\ wExecSerial = 0
    /\ wResult = <<>>
    /\ onErrorLog = {}

\* CRSqliteWorkerClientBrowser.start(): the worker handle is acquired and the
\* client marked started; a second start() returns early
ClientStart ==
    /\ ~isStarted
    /\ isStarted' = TRUE
    /\ port' = "open"
    /\ UNCHANGED <<execRequestCounter, pendingExecRequests, calls, promise, timers,
                   toWorkerNet, toClientNet, wExecSerial, wResult, onErrorLog>>
    /\ UNCHANGED notExec

\* CRSqliteWorkerClientBrowser.stop(): closes the channel and the port; it does not
\* call the base class's stop(), so isStarted stays set
ClientStop ==
    /\ isStarted
    /\ port = "open"
    /\ port' = "null"
    /\ UNCHANGED <<isStarted, execRequestCounter, pendingExecRequests, calls, promise,
                   timers, toWorkerNet, toClientNet, wExecSerial, wResult, onErrorLog>>
    /\ UNCHANGED notExec

\* dbExec(sql): the promise executor registers the handlers, posts the exec envelope
\* and arms the timer; a throwing postMessage rejects the promise from inside the
\* executor, after the entry was registered and before the timer is armed
DbExec(sql) ==
    /\ isStarted
    /\ execRequestCounter < MaxExec
    /\ LET rid == RequestId(execRequestCounter)
           call == Len(calls) + 1
       IN  /\ execRequestCounter' = execRequestCounter + 1
           /\ calls' = Append(calls, [requestId |-> rid, sql |-> sql])
           /\ pendingExecRequests' = PendingSet(pendingExecRequests, rid, call)
           /\ IF port = "open"
              THEN /\ promise' = Append(promise, Unsettled)
                   /\ toWorkerNet' = toWorkerNet \cup
                        {[type |-> "exec", sql |-> sql, requestId |-> rid]}
                   /\ timers' = ArmTimer(rid, call)
              ELSE /\ promise' = Append(promise,
                        [st |-> "rejected", via |-> NoRequestId, val |-> NotPosted])
                   /\ UNCHANGED <<toWorkerNet, timers>>
    /\ UNCHANGED <<isStarted, port, toClientNet, wExecSerial, wResult, onErrorLog>>
    /\ UNCHANGED notExec

\* a worker that is no longer started once a statement has failed: it answers
\* every later request with the uncorrelated "Worker not started" error
WorkerHandleExecCrash(m) ==
    /\ m \in toWorkerNet
    /\ toWorkerNet' = toWorkerNet \ {m}
    /\ LET crashed == \E r \in DOMAIN wResult : wResult[r] = SqlError
           resp == IF crashed
                   THEN [type |-> "error", requestId |-> NoRequestId,
                         body |-> [kind |-> "not started", n |-> 0]]
                   ELSE IF m.sql = "invalid"
                   THEN [type |-> "error", requestId |-> m.requestId, body |-> SqlError]
                   ELSE [type |-> "exec-reply", requestId |-> m.requestId,
                         body |-> ExecResult(wExecSerial + 1)]
       IN  /\ toClientNet' = toClientNet \cup {resp}
           /\ wResult' = [r \in (DOMAIN wResult) \cup {m.requestId} |->
                            IF r = m.requestId THEN resp.body ELSE wResult[r]]
           /\ wExecSerial' = IF resp.type = "error" THEN wExecSerial
                             ELSE wExecSerial + 1
    /\ UNCHANGED <<isStarted, port, execRequestCounter, pendingExecRequests, calls,
                   promise, timers, onErrorLog>>
    /\ UNCHANGED notExec

\* CRSqliteWorkerBase.handleClientMessage, case "exec": run the statement and post
\* exec-reply with the request's requestId, or error with it when the store throws
WorkerHandleExec(m) ==
    /\ m \in toWorkerNet
    /\ toWorkerNet' = toWorkerNet \ {m}
    /\ LET resp == IF m.sql = "invalid"
                   THEN [type |-> "error", requestId |-> m.requestId, body |-> SqlError]
                   ELSE [type |-> "exec-reply", requestId |-> m.requestId,
                         body |-> ExecResult(wExecSerial + 1)]
       IN  /\ toClientNet' = toClientNet \cup {resp}
           /\ wResult' = [r \in (DOMAIN wResult) \cup {m.requestId} |->
                            IF r = m.requestId THEN resp.body ELSE wResult[r]]
           /\ wExecSerial' = IF m.sql = "invalid" THEN wExecSerial ELSE wExecSerial + 1
    /\ UNCHANGED <<isStarted, port, execRequestCounter, pendingExecRequests, calls,
                   promise, timers, onErrorLog>>
    /\ UNCHANGED notExec

\* CRSqliteWorkerClientBase.handleWorkerMessage, cases "exec-reply" and "error"
HandleWorkerMessage(m) ==
    /\ m \in toClientNet
    /\ port = "open"
    /\ toClientNet' = toClientNet \ {m}
    /\ LET hit == PendingLookup(m.requestId)
       IN  IF hit # {}
           THEN LET rid == CHOOSE r \in hit : TRUE
                    call == pendingExecRequests[rid]
                IN  /\ pendingExecRequests' = PendingDelete(pendingExecRequests, rid)
                    /\ promise' = Settle(promise, call,
                           IF m.type = "exec-reply" THEN "resolved" ELSE "rejected",
                           m.requestId, m.body)
                    /\ timers' = IF m.type = "exec-reply" THEN ClearTimer(call)
                                 ELSE timers
                    /\ UNCHANGED onErrorLog
           ELSE /\ onErrorLog' = IF m.type = "error"
                                 THEN onErrorLog \cup {m.requestId} ELSE onErrorLog
                /\ UNCHANGED <<pendingExecRequests, promise, timers>>
    /\ UNCHANGED <<isStarted, port, execRequestCounter, calls, toWorkerNet,
                   wExecSerial, wResult>>
    /\ UNCHANGED notExec

\* the setTimeout callback of one dbExec call
ExecTimeout(t) ==
    /\ t \in timers
    /\ timers' = timers \ {t}
    /\ IF t.requestId \in DOMAIN pendingExecRequests
       THEN /\ pendingExecRequests' = PendingDelete(pendingExecRequests, t.requestId)
            /\ promise' = Settle(promise, t.call, "rejected", NoRequestId, TimeoutError)
       ELSE UNCHANGED <<pendingExecRequests, promise>>
    /\ UNCHANGED <<isStarted, port, execRequestCounter, calls, toWorkerNet,
                   toClientNet, wExecSerial, wResult, onErrorLog>>
    /\ UNCHANGED notExec

(***************************************************************************)
(* Part 2.  Topic naming (createSharedWorkerShim, stableName).             *)
(* Strings are sequences of character codes; a 32-bit unsigned integer is  *)
(* a pair <<high 16 bits, low 16 bits>>.                                   *)
(***************************************************************************)

\* "/w.ts" and "/v.ts"
WorkerUrls == {<<47, 119, 46, 116, 115>>, <<47, 118, 46, 116, 115>>}

StrSwColon == <<115, 119, 58>>
StrSwDash == <<115, 119, 45>>
StrCrsqliteSync == <<99, 114, 115, 113, 108, 105, 116, 101, 45, 115, 121, 110, 99, 45>>
StrTab == <<116, 97, 98, 45>>

RECURSIVE XorBits(_, _, _)
\* a ^ b on the low n bits
XorBits(a, b, n) ==
    IF n = 0 THEN 0
    ELSE (((a % 2) + (b % 2)) % 2) + 2 * XorBits(a \div 2, b \div 2, n - 1)

\* 2166136261 >>> 0
FnvOffsetBasis == <<33052, 40389>>

\* h ^= s.charCodeAt(i)
FnvXor(h, code) == <<h[1], XorBits(h[2], code, 16)>>

\* Math.imul(h, 16777619) >>> 0, with 16777619 = 2^24 + 403
FnvMul(h) ==
    LET low == h[2] * 403
    IN  <<((h[1] * 403) + (low \div 65536) + ((h[2] % 256) * 256)) % 65536, low % 65536>>

RECURSIVE FnvHash(_, _, _)
\* the loop of stableName from index i on
FnvHash(h, s, i) ==
    IF i > Len(s) THEN h ELSE FnvHash(FnvMul(FnvXor(h, s[i])), s, i + 1)

\* one digit of Number.prototype.toString(36)
Digit36(d) == IF d < 10 THEN 48 + d ELSE 87 + d

RECURSIVE Base36(_)
\* h.toString(36)
Base36(h) ==
    LET rest == ((h[1] % 36) * 65536) + h[2]
        quot == <<h[1] \div 36, rest \div 36>>
        last == <<Digit36(rest % 36)>>
    IN  IF quot = <<0, 0>> THEN last ELSE Base36(quot) \o last

\* stableName(s): `sw-${h.toString(36)}`
stableName(s) == StrSwDash \o Base36(FnvHash(FnvOffsetBasis, s, 1))

\* the tabId of the n-th CRSqliteTabSync instance: `tab-${Date.now()}-${random}`
TabId(n) == StrTab \o <<48 + n>>

\* const topic = `sw:${name}`
Topic(name) == StrSwColon \o name

InitName ==
    /\ acquired = <<>>
    /\ nextTabId = 0

\* createSharedWorkerShim(workerUrl) called without a name option
ShimAcquire(url) ==
    /\ Len(acquired) < MaxAcquire
    /\ acquired' = Append(acquired,
           [by |-> "shim", url |-> url, topic |-> Topic(stableName(url))])
    /\ UNCHANGED nextTabId
    /\ UNCHANGED notName

\* a new CRSqliteTabSync(db, url).start(): it passes
\* name: "crsqlite-sync-" + this.tabId to createSharedWorkerShim
TabSyncStart(url) ==
    /\ Len(acquired) < MaxAcquire
    /\ nextTabId' = nextTabId + 1
    /\ acquired' = Append(acquired,
           [by |-> "tabsync", url |-> url,
            topic |-> Topic(StrCrsqliteSync \o TabId(nextTabId))])
    /\ UNCHANGED notName

NextName ==
    \/ \E url \in WorkerUrls : ShimAcquire(url)
    \/ \E url \in WorkerUrls : TabSyncStart(url)

(***************************************************************************)
(* Part 3.  The shared-worker shim: election, leader host, bootstrap and   *)
(* the worker behind it (createSharedWorkerShim, startLeaderHost).         *)
(***************************************************************************)
Tabs == 1..NumTabs

\* this.workerSiteId after CRSqliteWorkerBase.initialize
WorkerSiteId == "site-w"

NoPayload == [type |-> "none", n |-> 0, siteId |-> "none"]
\* { type: "sync" }: the n-th request of a tab
Sync(n) == [type |-> "sync", n |-> n, siteId |-> "none"]
\* { type: "sync-data", changes }: the answer to the n-th request
SyncData(n) == [type |-> "sync-data", n |-> n, siteId |-> "none"]
\* { type: "error", error }: the WorkerResponse that reports a failure
ErrorResponse == [type |-> "error", n |-> 0, siteId |-> "none"]
\* { __shim_error: String(err) }: what the bootstrap posts when the import fails
ShimError == [toClient |-> 0, payload |-> ErrorResponse]
\* { type: "ready", siteId: this.workerSiteId }
ReadyEnvelope == [type |-> "ready", n |-> 0, siteId |-> WorkerSiteId]

\* the ShimMsg variants a client posts on the topic
ShimHello(id) == [t |-> "__shim_hello", clientId |-> id, payload |-> NoPayload]
ShimToLeader(id, d) == [t |-> "__shim_toLeader", clientId |-> id, payload |-> d]
ShimDisconnect(id) == [t |-> "__shim_disconnect", clientId |-> id, payload |-> NoPayload]

\* chanRxClient and chanTxClient of the tab are open (readyHandler subscribed)
Listening(p) == p \in {"hasLeader", "done"}

\* the tabs that called terminate() or were closed
Gone == {t \in Tabs : pc[t] \in {"terminated", "closed"}}

\* the elector of the tab takes part in the election
Participant(t) == Listening(pc[t]) /\ ~isDead[t]

MapSet(m, k, v) == [x \in (DOMAIN m) \cup {k} |-> IF x = k THEN v ELSE m[x]]
MapDelete(m, k) == [x \in (DOMAIN m) \ {k} |-> m[x]]

\* a tab that hosts nothing
NoHost == [relay |-> "none", phase |-> "none", inq |-> <<>>, out |-> <<>>,
           pend |-> <<>>, pendMsgs |-> <<>>, ports |-> <<>>, clients |-> <<>>]

\* startLeaderHost: a dedicated Worker running the bootstrap, dedicated.onmessage
\* = fromWorker and chanRxLeader subscribed with toWorker
StartLeaderHost(hs, t) ==
    [hs EXCEPT ![t] = [NoHost EXCEPT !.relay = "wired", !.phase = "loading"]]

\* toWorker: what the leader posts to its dedicated worker for a ShimMsg
ToWorkerCmd(msg) ==
    [cmd |-> CASE msg.t = "__shim_hello" -> "__connect"
               [] msg.t = "__shim_toLeader" -> "__fromClient"
               [] OTHER -> "__disconnect",
     clientId |-> msg.clientId, payload |-> msg.payload]

\* chanTxClient.postMessage(msg): every subscribed chanRxLeader runs toWorker
BroadcastToLeaders(hs, msg) ==
    [h \in Tabs |-> IF hs[h].relay = "wired"
                    THEN [hs[h] EXCEPT !.inq = Append(@, ToWorkerCmd(msg))]
                    ELSE hs[h]]

\* toWorker answers a hello with __shim_ready when its chanTxLeader is still open
HelloAnswered(hs, pcs) ==
    \E h \in Tabs : hs[h].relay = "wired" /\ Listening(pcs[h])

\* a __shim_ready broadcast reaches the readyHandler of every open chanRxClient;
\* only a call still suspended before line 780 ever reads leaderReady, so the
\* broadcast is tracked for those tabs alone
ReadyCast(pcs) ==
    [t \in Tabs |-> readyInFlight[t] \/ (pcs[t] = "hasLeader" /\ ~leaderReady[t])]

\* CRSqliteWorkerBase.handleClientMessage (sync) for the messages q of client id
Answers(id, q) ==
    [i \in 1..Len(q) |-> [toClient |-> id, payload |-> SyncData(q[i].n)]]

\* a doConnect that flushes pendMsgs last in, first out
DoConnectReversed(w, id) ==
    LET p == IF id \in DOMAIN w.pendMsgs THEN w.pendMsgs[id] ELSE <<>>
        q == [i \in 1..Len(p) |-> p[Len(p) + 1 - i]]
        started == w.phase = "started"
    IN  [w EXCEPT
            !.ports = Append(@, [id |-> id, q |-> IF started THEN <<>> ELSE q]),
            !.clients = MapSet(@, id, Len(w.ports) + 1),
            !.pendMsgs = MapDelete(@, id),
            !.out = IF started
                    THEN @ \o <<[toClient |-> id, payload |-> ReadyEnvelope]>>
                           \o Answers(id, q)
                    ELSE @]

\* doConnect(id): a new VirtualPort, the connect event, the flush of pendMsgs
DoConnect(w, id) ==
    LET q == IF id \in DOMAIN w.pendMsgs THEN w.pendMsgs[id] ELSE <<>>
        started == w.phase = "started"
    IN  [w EXCEPT
            !.ports = Append(@, [id |-> id, q |-> IF started THEN <<>> ELSE q]),
            !.clients = MapSet(@, id, Len(w.ports) + 1),
            !.pendMsgs = MapDelete(@, id),
            !.out = IF started
                    THEN @ \o <<[toClient |-> id, payload |-> ReadyEnvelope]>>
                           \o Answers(id, q)
                    ELSE @]

\* __afterLoad: for (const id of pend) doConnect(id)
RECURSIVE ConnectAll(_, _)
ConnectAll(w, ids) ==
    IF ids = <<>> THEN w ELSE ConnectAll(DoConnect(w, Head(ids)), Tail(ids))

\* processPendingPorts: the ready envelopes of the queued ports, in order
PortReadys(ports) ==
    [i \in 1..Len(ports) |-> [toClient |-> ports[i].id, payload |-> ReadyEnvelope]]

\* the answers to what the queued ports had buffered, port by port
RECURSIVE PortAnswers(_, _)
PortAnswers(ports, i) ==
    IF i > Len(ports) THEN <<>>
    ELSE Answers(ports[i].id, ports[i].q) \o PortAnswers(ports, i + 1)

\* a bootstrap that hands a message to every port it ever made for the clientId
OnMessageEveryPort(w, m) ==
    IF m.cmd = "__connect"
    THEN IF w.phase \in {"loaded", "started"}
         THEN DoConnect(w, m.clientId)
         ELSE [w EXCEPT !.pend = Append(@, m.clientId)]
    ELSE IF m.cmd = "__fromClient"
    THEN IF m.clientId \in DOMAIN w.clients
         THEN LET mine == SelectSeq(w.ports, LAMBDA p : p.id = m.clientId)
              IN  IF w.phase = "started"
                  THEN [w EXCEPT !.out = @ \o [i \in 1..Len(mine) |->
                               Answers(m.clientId, <<m.payload>>)[1]]]
                  ELSE [w EXCEPT !.ports = [i \in 1..Len(w.ports) |->
                               IF w.ports[i].id = m.clientId
                               THEN [w.ports[i] EXCEPT !.q = Append(@, m.payload)]
                               ELSE w.ports[i]]]
         ELSE [w EXCEPT !.pendMsgs =
                  MapSet(@, m.clientId,
                         (IF m.clientId \in DOMAIN w.pendMsgs
                          THEN w.pendMsgs[m.clientId] ELSE <<>>) \o <<m.payload>>)]
    ELSE [w EXCEPT !.clients = MapDelete(@, m.clientId),
                   !.pendMsgs = MapDelete(@, m.clientId)]

\* self.onmessage of the bootstrap
OnMessage(w, m) ==
    IF m.cmd = "__connect"
    THEN IF w.phase \in {"loaded", "started"}
         THEN DoConnect(w, m.clientId)
         ELSE [w EXCEPT !.pend = Append(@, m.clientId)]
    ELSE IF m.cmd = "__fromClient"
    THEN IF m.clientId \in DOMAIN w.clients
         THEN IF w.phase = "started"
              THEN [w EXCEPT !.out = @ \o Answers(m.clientId, <<m.payload>>)]
              ELSE [w EXCEPT !.ports[w.clients[m.clientId]].q = Append(@, m.payload)]
         ELSE [w EXCEPT !.pendMsgs =
                  MapSet(@, m.clientId,
                         (IF m.clientId \in DOMAIN w.pendMsgs
                          THEN w.pendMsgs[m.clientId] ELSE <<>>) \o <<m.payload>>)]
    ELSE [w EXCEPT !.clients = MapDelete(@, m.clientId),
                   !.pendMsgs = MapDelete(@, m.clientId)]

InitShim ==
    /\ pc = [t \in Tabs |-> "idle"]
    /\ isLeader = [t \in Tabs |-> FALSE]
    /\ isDead = [t \in Tabs |-> FALSE]
    /\ dupPending = [t \in Tabs |-> FALSE]
    /\ thenPending = [t \in Tabs |-> FALSE]
    /\ leaderReady = [t \in Tabs |-> FALSE]
    /\ readyInFlight = [t \in Tabs |-> FALSE]
    /\ leadersStarted = [t \in Tabs |-> FALSE]
    /\ hosts = [t \in Tabs |-> NoHost]
    /\ sent = [t \in Tabs |-> 0]
    /\ received = [t \in Tabs |-> <<>>]
    /\ splits = 0
    /\ retAt = [t \in Tabs |-> "none"]
    /\ dupDone = [t \in Tabs |-> FALSE]
    /\ lostLeader = FALSE
    /\ sentAfter = [t \in Tabs |-> {}]

\* createSharedWorkerShim up to its first suspension: channels opened, elector
\* created, readyHandler subscribed, await elector.hasLeader() pending
ShimCall(t) ==
    /\ pc[t] = "idle"
    /\ pc' = [pc EXCEPT ![t] = "hasLeader"]
    /\ UNCHANGED <<isLeader, isDead, dupPending, thenPending, leaderReady,
                   readyInFlight, leadersStarted, hosts, sent, received, splits,
                   retAt, dupDone, lostLeader, sentAfter>>
    /\ UNCHANGED notShim

\* createSharedWorkerShim from the answer hl of elector.hasLeader() to its return:
\* the conditional hello, the race of readyP with the hosting arm, the virtual
\* port, the second hello
ShimResume(t, hl) ==
    /\ pc[t] = "hasLeader"
    /\ hl => \E u \in Tabs : isLeader[u]
    /\ LET hs1 == IF hl THEN hosts ELSE BroadcastToLeaders(hosts, ShimHello(t))
           r1 == ~hl /\ HelloAnswered(hosts, pc)
           startNow == ~leaderReady[t] /\ isLeader[t] /\ ~leadersStarted[t]
           hs2 == IF startNow THEN StartLeaderHost(hs1, t) ELSE hs1
           hs3 == BroadcastToLeaders(hs2, ShimHello(t))
           r3 == HelloAnswered(hs2, pc)
           pc1 == [pc EXCEPT ![t] = "done"]
       IN  /\ hosts' = hs3
           /\ pc' = pc1
           /\ leadersStarted' = [leadersStarted EXCEPT ![t] = @ \/ startNow]
           /\ readyInFlight' = [IF r1 \/ startNow \/ r3
                                THEN ReadyCast(pc1) ELSE readyInFlight
                                    EXCEPT ![t] = FALSE]
           /\ retAt' = [retAt EXCEPT ![t] =
                  IF leaderReady[t] THEN "ready"
                  ELSE IF leadersStarted[t] \/ startNow THEN "hosting"
                  ELSE IF \E h \in Tabs : hosts[h].relay = "wired" THEN "blind"
                  ELSE "hostless"]
    /\ UNCHANGED <<isLeader, isDead, dupPending, thenPending, leaderReady, sent,
                   received, splits, dupDone, lostLeader, sentAfter>>
    /\ UNCHANGED notShim

\* readyHandler
ReadyHandler(t) ==
    /\ readyInFlight[t]
    /\ readyInFlight' = [readyInFlight EXCEPT ![t] = FALSE]
    /\ leaderReady' = [leaderReady EXCEPT ![t] = TRUE]
    /\ UNCHANGED <<pc, isLeader, isDead, dupPending, thenPending, leadersStarted,
                   hosts, sent, received, splits, retAt, dupDone, lostLeader,
                   sentAfter>>
    /\ UNCHANGED notShim

\* the election gives the leadership to a tab while no tab holds it:
\* elector.awaitLeadership() resolves
BecomeLeader(t) ==
    /\ Participant(t)
    /\ \A u \in Tabs : ~isLeader[u]
    /\ isLeader' = [isLeader EXCEPT ![t] = TRUE]
    /\ thenPending' = [thenPending EXCEPT ![t] = TRUE]
    /\ UNCHANGED <<pc, isDead, dupPending, leaderReady, readyInFlight,
                   leadersStarted, hosts, sent, received, splits, retAt, dupDone,
                   lostLeader, sentAfter>>
    /\ UNCHANGED notShim

\* split brain: awaitLeadership() resolves for a second tab; the election then
\* schedules the duplicate callback on every leader but the one that wins
SplitBrain(t, winner) ==
    /\ splits < MaxSplit
    /\ Participant(t)
    /\ ~isLeader[t]
    /\ \E u \in Tabs : isLeader[u]
    /\ winner = t \/ isLeader[winner]
    /\ splits' = splits + 1
    /\ isLeader' = [isLeader EXCEPT ![t] = TRUE]
    /\ thenPending' = [thenPending EXCEPT ![t] = TRUE]
    /\ dupPending' = [u \in Tabs |->
                         dupPending[u] \/ ((isLeader[u] \/ u = t) /\ u # winner)]
    /\ UNCHANGED <<pc, isDead, leaderReady, readyInFlight, leadersStarted, hosts,
                   sent, received, retAt, dupDone, lostLeader, sentAfter>>
    /\ UNCHANGED notShim

\* elector.die()
Die(t) ==
    /\ isLeader' = [isLeader EXCEPT ![t] = FALSE]
    /\ isDead' = [isDead EXCEPT ![t] = TRUE]

\* an onduplicate handler that keeps the leadership
OnDuplicateKeep(t) ==
    /\ dupPending[t]
    /\ dupPending' = [dupPending EXCEPT ![t] = FALSE]
    /\ dupDone' = [dupDone EXCEPT ![t] = TRUE]
    /\ UNCHANGED <<pc, isLeader, isDead, thenPending, leaderReady, readyInFlight,
                   leadersStarted, hosts, sent, received, splits, retAt,
                   lostLeader, sentAfter>>
    /\ UNCHANGED notShim

\* elector.onduplicate = async () => { try { await elector.die(); } catch {} }
OnDuplicate(t) ==
    /\ dupPending[t]
    /\ dupPending' = [dupPending EXCEPT ![t] = FALSE]
    /\ Die(t)
    /\ dupDone' = [dupDone EXCEPT ![t] = TRUE]
    /\ UNCHANGED <<pc, thenPending, leaderReady, readyInFlight, leadersStarted,
                   hosts, sent, received, splits, retAt, lostLeader, sentAfter>>
    /\ UNCHANGED notShim

\* the then-callback of elector.awaitLeadership()
LeadershipThen(t) ==
    /\ thenPending[t]
    /\ thenPending' = [thenPending EXCEPT ![t] = FALSE]
    /\ IF leadersStarted[t]
       THEN UNCHANGED <<leadersStarted, hosts, readyInFlight>>
       ELSE /\ leadersStarted' = [leadersStarted EXCEPT ![t] = TRUE]
            /\ hosts' = StartLeaderHost(hosts, t)
            /\ readyInFlight' = IF Listening(pc[t]) THEN ReadyCast(pc)
                                ELSE readyInFlight
    /\ UNCHANGED <<pc, isLeader, isDead, dupPending, leaderReady, sent, received,
                   splits, retAt, dupDone, lostLeader, sentAfter>>
    /\ UNCHANGED notShim

\* port.postMessage(data) on the virtual port the tab holds
PortPostMessage(t) ==
    /\ pc[t] = "done"
    /\ sent[t] < MaxSend
    /\ sent' = [sent EXCEPT ![t] = @ + 1]
    /\ hosts' = BroadcastToLeaders(hosts, ShimToLeader(t, Sync(sent[t] + 1)))
    /\ sentAfter' = [sentAfter EXCEPT ![t] =
           IF lostLeader /\ \E h \in Tabs : isLeader[h] /\ hosts[h].relay = "wired"
           THEN @ \cup {sent[t] + 1} ELSE @]
    /\ UNCHANGED <<pc, isLeader, isDead, dupPending, thenPending, leaderReady,
                   readyInFlight, leadersStarted, received, splits, retAt, dupDone,
                   lostLeader>>
    /\ UNCHANGED notShim

\* the dedicated worker handles the next message the leader posted to it
BootstrapOnMessage(h) ==
    /\ hosts[h].phase # "none"
    /\ hosts[h].inq # <<>>
    /\ hosts' = [hosts EXCEPT ![h] =
           [OnMessage(hosts[h], Head(hosts[h].inq)) EXCEPT !.inq = Tail(hosts[h].inq)]]
    /\ UNCHANGED <<pc, isLeader, isDead, dupPending, thenPending, leaderReady,
                   readyInFlight, leadersStarted, sent, received, splits, retAt,
                   dupDone, lostLeader, sentAfter>>
    /\ UNCHANGED notShim

\* the import of the worker script completes: the script registered its connect
\* listener (hasConnect), __afterLoad connects the pending clients
WorkerLoaded(h) ==
    /\ hosts[h].phase = "loading"
    /\ hosts' = [hosts EXCEPT ![h] =
           [ConnectAll([hosts[h] EXCEPT !.phase = "loaded"], hosts[h].pend)
               EXCEPT !.pend = <<>>]]
    /\ UNCHANGED <<pc, isLeader, isDead, dupPending, thenPending, leaderReady,
                   readyInFlight, leadersStarted, sent, received, splits, retAt,
                   dupDone, lostLeader, sentAfter>>
    /\ UNCHANGED notShim

\* CRSqliteSharedWorker.start: initialize, isStarted, processPendingPorts
WorkerStart(h) ==
    /\ hosts[h].phase = "loaded"
    /\ hosts' = [hosts EXCEPT ![h] =
           [@ EXCEPT !.phase = "started",
                     !.out = @ \o PortReadys(hosts[h].ports)
                               \o PortAnswers(hosts[h].ports, 1),
                     !.ports = [i \in 1..Len(hosts[h].ports) |->
                                   [hosts[h].ports[i] EXCEPT !.q = <<>>]]]]
    /\ UNCHANGED <<pc, isLeader, isDead, dupPending, thenPending, leaderReady,
                   readyInFlight, leadersStarted, sent, received, splits, retAt,
                   dupDone, lostLeader, sentAfter>>
    /\ UNCHANGED notShim

\* fromWorker rebroadcasts the next message of the dedicated worker on
\* chanTxLeader; toClientHandler of the addressed virtual port hands it on
FromWorker(h) ==
    /\ hosts[h].relay = "wired"
    /\ hosts[h].out # <<>>
    /\ LET m == Head(hosts[h].out)
       IN  /\ hosts' = [hosts EXCEPT ![h].out = Tail(@)]
           /\ IF m = ShimError
              THEN /\ readyInFlight' = IF Listening(pc[h]) THEN ReadyCast(pc)
                                       ELSE readyInFlight
                   /\ UNCHANGED received
              ELSE /\ received' =
                      IF Listening(pc[h]) /\ pc[m.toClient] = "done"
                      THEN [received EXCEPT ![m.toClient] = Append(@, m.payload)]
                      ELSE received
                   /\ UNCHANGED readyInFlight
    /\ UNCHANGED <<pc, isLeader, isDead, dupPending, thenPending, leaderReady,
                   leadersStarted, sent, splits, retAt, dupDone, lostLeader,
                   sentAfter>>
    /\ UNCHANGED notShim

\* the import of the worker script fails (or the worker raises an error
\* event): the bootstrap posts { __shim_error } and connects nobody
WorkerLoadFails(h) ==
    /\ hosts[h].phase = "loading"
    /\ hosts' = [hosts EXCEPT ![h].phase = "failed", ![h].out = Append(@, ShimError)]
    /\ UNCHANGED <<pc, isLeader, isDead, dupPending, thenPending, leaderReady,
                   readyInFlight, leadersStarted, sent, received, splits, retAt,
                   dupDone, lostLeader, sentAfter>>
    /\ UNCHANGED notShim

\* the then-callback of elector.awaitLeadership() when new Worker(url) throws
\* in startLeaderHost: the callback's promise rejects, nothing was wired
LeadershipThenThrows(t) ==
    /\ thenPending[t]
    /\ ~leadersStarted[t]
    /\ thenPending' = [thenPending EXCEPT ![t] = FALSE]
    /\ leadersStarted' = [leadersStarted EXCEPT ![t] = TRUE]
    /\ hosts' = [hosts EXCEPT ![t] = [NoHost EXCEPT !.phase = "threw"]]
    /\ UNCHANGED <<pc, isLeader, isDead, dupPending, leaderReady, readyInFlight,
                   sent, received, splits, retAt, dupDone, lostLeader, sentAfter>>
    /\ UNCHANGED notShim

\* terminate() of the returned handle (cleanup)
Terminate(t) ==
    /\ pc[t] = "done"
    /\ Cardinality(Gone) < MaxGone
    /\ pc' = [pc EXCEPT ![t] = "terminated"]
    /\ hosts' = BroadcastToLeaders(hosts, ShimDisconnect(t))
    /\ readyInFlight' = [readyInFlight EXCEPT ![t] = FALSE]
    /\ Die(t)
    /\ dupPending' = [dupPending EXCEPT ![t] = FALSE]
    /\ UNCHANGED <<thenPending, leaderReady, leadersStarted, sent, received,
                   splits, retAt, dupDone, lostLeader, sentAfter>>
    /\ UNCHANGED notShim

\* the tab is closed; unloaded says whether the beforeunload listener got to
\* post its __shim_disconnect
CloseTab(t, unloaded) ==
    /\ pc[t] \in {"hasLeader", "done", "terminated"}
    /\ pc[t] = "terminated" \/ Cardinality(Gone) < MaxGone
    /\ unloaded => pc[t] = "done"
    /\ pc' = [pc EXCEPT ![t] = "closed"]
    /\ LET hs1 == IF unloaded THEN BroadcastToLeaders(hosts, ShimDisconnect(t))
                  ELSE hosts
       IN  hosts' = [hs1 EXCEPT ![t] = NoHost]
    /\ Die(t)
    /\ dupPending' = [dupPending EXCEPT ![t] = FALSE]
    /\ thenPending' = [thenPending EXCEPT ![t] = FALSE]
    /\ readyInFlight' = [readyInFlight EXCEPT ![t] = FALSE]
    /\ lostLeader' = (lostLeader \/ (isLeader[t] /\ hosts[t].relay = "wired"))
    /\ UNCHANGED <<leaderReady, leadersStarted, sent, received, splits, retAt,
                   dupDone, sentAfter>>
    /\ UNCHANGED notShim

\* the tabs whose elector reports isLeader
Leaders == {t \in Tabs : isLeader[t]}

\* the tabs that host a live worker: a dedicated Worker exists and chanRxLeader
\* relays the topic's traffic to it
LiveHosts == {t \in Tabs : hosts[t].relay = "wired" /\ hosts[t].phase # "none"}

\* nothing is in flight and no worker is still initializing
Quiescent ==
    \A h \in Tabs : /\ hosts[h].inq = <<>>
                     /\ hosts[h].out = <<>>
                     /\ hosts[h].phase \in {"none", "started"}
                     /\ ~thenPending[h]

\* the virtual port of tab t handed the answer to its n-th request to its listeners
Answered(t, n) == \E i \in 1..Len(received[t]) : received[t][i] = SyncData(n)

\* the election in normal operation with leader hosts whose worker cannot be
\* constructed or cannot load its script
NextFailure ==
    \/ \E t \in Tabs : ShimCall(t)
    \/ \E t \in Tabs, hl \in BOOLEAN : ShimResume(t, hl)
    \/ \E t \in Tabs : ReadyHandler(t)
    \/ \E t \in Tabs : BecomeLeader(t)
    \/ \E t \in Tabs : LeadershipThen(t)
    \/ \E t \in Tabs : LeadershipThenThrows(t)
    \/ \E t \in Tabs : PortPostMessage(t)
    \/ \E h \in Tabs : BootstrapOnMessage(h)
    \/ \E h \in Tabs : WorkerLoadFails(h)
    \/ \E h \in Tabs : FromWorker(h)

\* the election in normal operation (one leader at a time), the relay and the
\* workers, with tabs terminating their handle or closing
\* the tabs start in any order, one is elected and hosts the worker; no tab closes
NextStartup ==
    \/ \E t \in Tabs : ShimCall(t)
    \/ \E t \in Tabs, hl \in BOOLEAN : ShimResume(t, hl)
    \/ \E t \in Tabs : ReadyHandler(t)
    \/ \E t \in Tabs : BecomeLeader(t)
    \/ \E t \in Tabs : LeadershipThen(t)
    \/ \E t \in Tabs : PortPostMessage(t)
    \/ \E h \in Tabs : BootstrapOnMessage(h)
    \/ \E h \in Tabs : WorkerLoaded(h)
    \/ \E h \in Tabs : WorkerStart(h)
    \/ \E h \in Tabs : FromWorker(h)

NextRelay ==
    \/ \E t \in Tabs : ShimCall(t)
    \/ \E t \in Tabs, hl \in BOOLEAN : ShimResume(t, hl)
    \/ \E t \in Tabs : ReadyHandler(t)
    \/ \E t \in Tabs : BecomeLeader(t)
    \/ \E t \in Tabs : LeadershipThen(t)
    \/ \E t \in Tabs : PortPostMessage(t)
    \/ \E h \in Tabs : BootstrapOnMessage(h)
    \/ \E h \in Tabs : WorkerLoaded(h)
    \/ \E h \in Tabs : WorkerStart(h)
    \/ \E h \in Tabs : FromWorker(h)
    \/ \E t \in Tabs : Terminate(t)
    \/ \E t \in Tabs, unloaded \in BOOLEAN : CloseTab(t, unloaded)

(***************************************************************************)
(* Part 4.  Change propagation: the clients (CRSqliteWorkerClientBrowser), *)
(* their local stores, the worker's store and the "db-sync" channel.       *)
(* A change record is [table, pk, db_version, site_id]: db_version is the  *)
(* version of the store that holds the record, site_id the store the row   *)
(* was written in.  Every write inserts a new row, so records of different *)
(* writes never address the same cell.                                     *)
(***************************************************************************)
Clients == 1..NumClients

Tables == {"todo", "todo_list"}

\* this.siteId before the store has answered
NullSite == <<"null", 0>>
\* crsql_site_id() of the local store of client t
Site(t) == <<"site", t>>
\* crsql_site_id() of the worker's store
WorkerSite == <<"site", 0>>

NoRecord == [table |-> "none", pk |-> 0, db_version |-> 0, site_id |-> NullSite]

RECURSIVE MaxOf(_)
\* Math.max(...) of a non-empty set of numbers
MaxOf(S) ==
    LET x == CHOOSE y \in S : TRUE
    IN  IF S = {x} THEN x
        ELSE LET m == MaxOf(S \ {x}) IN IF x > m THEN x ELSE m

\* Math.max(...changes.map((c) => c.db_version))
MaxVersion(changes) == MaxOf({c.db_version : c \in changes})

\* crsql_db_version() of a store
DbVersion(db) == IF db = {} THEN 0 ELSE MaxVersion(db)

\* the cell a record addresses
Key(r) == <<r.table, r.pk, r.site_id>>

\* SELECT * FROM crsql_changes WHERE db_version > ? AND site_id = crsql_site_id()
ChangesAfter(db, site, version) ==
    {r \in db : r.site_id = site /\ r.db_version > version}

\* a statement of the application that inserts a row into table tb of the store
\* of site: the store's version advances by one
Insert(db, site, tb) ==
    [table |-> tb, pk |-> Cardinality({r \in db : r.site_id = site}) + 1,
     db_version |-> DbVersion(db) + 1, site_id |-> site]

\* a merge that stores every incoming record again under a new version
MergeAgain(db, c) ==
    {r \in db : Key(r) # Key(c)} \cup {[c EXCEPT !.db_version = DbVersion(db) + 1]}

\* INSERT INTO crsql_changes VALUES (...): a record the store does not hold yet is
\* stored under the store's next version, one it holds already changes nothing
Merge(db, c) ==
    IF \E r \in db : Key(r) = Key(c) THEN db
    ELSE db \cup {[c EXCEPT !.db_version = DbVersion(db) + 1]}

\* the stores: 0 is the worker's, t the local store of client t
Stores == {0} \cup Clients

RECURSIVE InsertAll(_, _, _)
\* for (const change of changes) await tx.exec(INSERT INTO crsql_changes ...), in
\* array order: the loop stops at the first statement that throws
InsertAll(db, bad, changes) ==
    IF changes = {} THEN [db |-> db, threw |-> FALSE]
    ELSE LET c == CHOOSE x \in changes : \A y \in changes : x.db_version <= y.db_version
         IN  IF Key(c) \in bad THEN [db |-> db, threw |-> TRUE]
             ELSE InsertAll(Merge(db, c), bad, changes \ {c})

\* a transaction that keeps what was inserted before the statement that threw
TxNoRollback(db, bad, changes) == InsertAll(db, bad, changes)

\* db.tx(async (tx) => { ... }): when the callback throws the transaction is rolled
\* back and the error is thrown on
Tx(db, bad, changes) ==
    LET r == InsertAll(db, bad, changes)
    IN  IF r.threw THEN [db |-> db, threw |-> TRUE] ELSE r

\* this.onSyncDataReceived is not null
OnSyncDataReceived(t) == syncHandler[t]
\* the application registers its error handler before start() (App-v2.tsx)
OnError(t) == TRUE

\* WorkerResponse and BroadcastMessage envelopes; sourceTabId 0 is undefined
SyncDataMsg(changes) ==
    [type |-> "sync-data", data |-> changes, sourceTabId |-> 0, rec |-> NoRecord]
ExecReplyMsg(rec) ==
    [type |-> "exec-reply", data |-> {}, sourceTabId |-> 0, rec |-> rec]
ReadyMsg ==
    [type |-> "ready", data |-> {}, sourceTabId |-> 0, rec |-> NoRecord]
ErrorMsg ==
    [type |-> "error", data |-> {}, sourceTabId |-> 0, rec |-> NoRecord]
ChangesApplied(changes, source) ==
    [type |-> "changes-applied", data |-> changes, sourceTabId |-> source,
     rec |-> NoRecord]

\* the store operations the worker's handlers wait for
SyncOp(t) ==
    [op |-> "sync", client |-> t, table |-> "none", since |-> 0, data |-> {},
     rec |-> NoRecord]
ExecOp(t, tb) ==
    [op |-> "exec", client |-> t, table |-> tb, since |-> 0, data |-> {},
     rec |-> NoRecord]
SelectOp(t, since, rec) ==
    [op |-> "select", client |-> t, table |-> "none", since |-> since, data |-> {},
     rec |-> rec]
ChangesOp(t, changes) ==
    [op |-> "changes", client |-> t, table |-> "none", since |-> 0, data |-> changes,
     rec |-> NoRecord]

\* the clients that have subscribed to "db-sync"
Subscribed == {t \in Clients : cStarted[t]}

\* BroadcastChannel("db-sync").postMessage(msg) by the worker: every client that
\* has subscribed receives it
Broadcast(msg) ==
    [t \in Clients |-> IF t \in Subscribed THEN Append(chanIn[t], msg) ELSE chanIn[t]]

\* a filter that also drops the records written in the worker's store
FilteredForeign(t, changes) ==
    {c \in changes : c.site_id \notin {siteId[t], WorkerSite}}

\* the loop of applyChanges that drops the records of the client's own site
Filtered(t, changes) ==
    {c \in changes : ~(siteId[t] # NullSite /\ c.site_id = siteId[t])}

\* touched: the table names of the records that are applied
Touched(changes) == {c.table : c \in changes}

\* applyChanges(changes) of client t: the new local store and the log entry;
\* tables is what onTablesChanged was called with, threw whether the promise of
\* applyChanges rejected, onError whether the caller's catch called this.onError
ApplyChanges(t, src, changes) ==
    LET filtered == Filtered(t, changes)
        tx == IF filtered = {} THEN [db |-> localDb[t], threw |-> FALSE]
              ELSE Tx(localDb[t], rejects[t], filtered)
    IN  [db |-> tx.db,
         entry |-> [src |-> src, data |-> changes,
                    inserted |-> IF tx.threw THEN {} ELSE filtered,
                    tables |-> IF tx.threw THEN {} ELSE Touched(filtered),
                    before |-> localDb[t], after |-> tx.db, threw |-> tx.threw,
                    onError |-> tx.threw /\ OnError(t)]]

\* the clients and the worker after their constructors, over empty stores
InitStores ==
    /\ cStarted = [t \in Clients |-> FALSE]
    /\ siteId = [t \in Clients |-> NullSite]
    /\ localDb = [t \in Clients |-> {}]
    /\ lastBroadcastVersion = [t \in Clients |-> 0]
    /\ syncs = 0
    /\ portIn = [t \in Clients |-> <<>>]
    /\ chanIn = [t \in Clients |-> <<>>]
    /\ applyLog = [t \in Clients |-> <<>>]
    /\ workerDb = {}
    /\ lastDbVersion = 0
    /\ dbQueue = <<>>
    /\ wLog = <<>>
    /\ served = [t \in Clients |-> [db |-> {}, data |-> {}]]
    /\ rejects = [s \in Stores |-> {}]
    /\ reads = [t \in Clients |-> <<>>]
    /\ changesSent = [t \in Clients |-> <<>>]
    /\ inits = 0
    /\ stopCalls = 0

\* the application calls sync.onSyncData(...) before sync.start() (App-v2.tsx)
InitSync ==
    /\ InitStores
    /\ syncHandler = [t \in Clients |-> TRUE]

\* CRSqliteWorkerClientBrowser.start(): super.start() is called and not awaited, so
\* the site id is still being read when start() marks the client started, acquires
\* the worker, subscribes to "db-sync" and posts the initial sync request
BrowserStart(t) ==
    /\ ~cStarted[t]
    /\ cStarted' = [cStarted EXCEPT ![t] = TRUE]
    /\ dbQueue' = Append(dbQueue, SyncOp(t))
    /\ UNCHANGED <<rejects, reads, changesSent>>
    /\ UNCHANGED <<syncHandler, inits, stopCalls>>
    /\ UNCHANGED <<siteId, localDb, lastBroadcastVersion, syncs, portIn, chanIn,
                   applyLog, workerDb, lastDbVersion, wLog, served>>
    /\ UNCHANGED notSync

\* CRSqliteWorkerClientBase.start() after await this.db.execO(...): the site id
\* the store returned is kept
SiteIdRead(t) ==
    /\ cStarted[t]
    /\ siteId[t] = NullSite
    /\ siteId' = [siteId EXCEPT ![t] = Site(t)]
    /\ UNCHANGED <<rejects, reads, changesSent>>
    /\ UNCHANGED <<syncHandler, inits, stopCalls>>
    /\ UNCHANGED <<cStarted, localDb, lastBroadcastVersion, syncs, portIn, chanIn,
                   applyLog, workerDb, lastDbVersion, dbQueue, wLog, served>>
    /\ UNCHANGED notSync

\* requestSync()
RequestSync(t) ==
    /\ cStarted[t]
    /\ syncs < MaxSync
    /\ syncs' = syncs + 1
    /\ dbQueue' = Append(dbQueue, SyncOp(t))
    /\ UNCHANGED <<rejects, reads, changesSent>>
    /\ UNCHANGED <<syncHandler, inits, stopCalls>>
    /\ UNCHANGED <<cStarted, siteId, localDb, lastBroadcastVersion, portIn, chanIn,
                   applyLog, workerDb, lastDbVersion, wLog, served>>
    /\ UNCHANGED notSync

\* the rows the application wrote into the clients' local stores
LocalRows == UNION {{r \in localDb[t] : r.site_id = Site(t)} : t \in Clients}

\* the application writes a row into the local store of client t
LocalWrite(t, tb) ==
    /\ cStarted[t]
    /\ Cardinality(LocalRows) < MaxLocal
    /\ localDb' = [localDb EXCEPT ![t] = @ \cup {Insert(@, Site(t), tb)}]
    /\ UNCHANGED <<rejects, reads, changesSent>>
    /\ UNCHANGED <<syncHandler, inits, stopCalls>>
    /\ UNCHANGED <<cStarted, siteId, lastBroadcastVersion, syncs, portIn, chanIn,
                   applyLog, workerDb, lastDbVersion, dbQueue, wLog, served>>
    /\ UNCHANGED notSync

\* triggerSync() -> checkForLocalChanges(): the local changes after
\* lastBroadcastVersion are broadcast as "changes" and the version is moved up
TriggerSync(t) ==
    /\ cStarted[t]
    /\ LET changes == ChangesAfter(localDb[t], Site(t), lastBroadcastVersion[t])
       IN  /\ changes # {}
           /\ dbQueue' = Append(dbQueue, ChangesOp(t, changes))
           /\ changesSent' = [changesSent EXCEPT ![t] = Append(@, changes)]
           /\ lastBroadcastVersion' =
                  [lastBroadcastVersion EXCEPT ![t] = MaxVersion(changes)]
    /\ UNCHANGED <<rejects, reads>>
    /\ UNCHANGED <<syncHandler, inits, stopCalls>>
    /\ UNCHANGED <<cStarted, siteId, localDb, syncs, portIn, chanIn, applyLog,
                   workerDb, lastDbVersion, wLog, served>>
    /\ UNCHANGED notSync

\* triggerSync() up to the await in checkForLocalChanges(): the query
\* getChangesAfterVersion(this.lastBroadcastVersion) is issued with the mark of
\* this moment; nothing keeps a second call from starting before the first resumes
TriggerSyncCall(t) ==
    /\ cStarted[t]
    /\ Len(reads[t]) < MaxOverlap
    /\ reads' = [reads EXCEPT ![t] = Append(@, lastBroadcastVersion[t])]
    /\ UNCHANGED <<rejects, changesSent>>
    /\ UNCHANGED <<syncHandler, inits, stopCalls>>
    /\ UNCHANGED <<cStarted, siteId, localDb, lastBroadcastVersion, syncs, portIn,
                   chanIn, applyLog, workerDb, lastDbVersion, dbQueue, wLog, served>>
    /\ UNCHANGED notSync

\* checkForLocalChanges() from the answer of its query on: the changes found are
\* broadcast as "changes" and the mark is set to their highest version
CheckForLocalChangesResume(t) ==
    /\ reads[t] # <<>>
    /\ reads' = [reads EXCEPT ![t] = Tail(@)]
    /\ LET changes == ChangesAfter(localDb[t], Site(t), Head(reads[t]))
       IN  IF changes # {}
           THEN /\ dbQueue' = Append(dbQueue, ChangesOp(t, changes))
                /\ changesSent' = [changesSent EXCEPT ![t] = Append(@, changes)]
                /\ lastBroadcastVersion' =
                       [lastBroadcastVersion EXCEPT ![t] = MaxVersion(changes)]
           ELSE UNCHANGED <<dbQueue, changesSent, lastBroadcastVersion>>
    /\ UNCHANGED rejects
    /\ UNCHANGED <<syncHandler, inits, stopCalls>>
    /\ UNCHANGED <<cStarted, siteId, localDb, syncs, portIn, chanIn, applyLog,
                   workerDb, lastDbVersion, wLog, served>>
    /\ UNCHANGED notSync

\* dbExec(sql) with a statement that inserts a row into table tb
DbExecWrite(t, tb) ==
    /\ cStarted[t]
    /\ Cardinality({r \in workerDb : r.site_id = WorkerSite})
         + Cardinality({i \in 1..Len(dbQueue) : dbQueue[i].op = "exec"}) < MaxWrite
    /\ dbQueue' = Append(dbQueue, ExecOp(t, tb))
    /\ UNCHANGED <<rejects, reads, changesSent>>
    /\ UNCHANGED <<syncHandler, inits, stopCalls>>
    /\ UNCHANGED <<cStarted, siteId, localDb, lastBroadcastVersion, syncs, portIn,
                   chanIn, applyLog, workerDb, lastDbVersion, wLog, served>>
    /\ UNCHANGED notSync

\* getAllChanges(): SELECT * FROM crsql_changes
GetAllChanges == workerDb

\* CRSqliteWorkerBase.handleClientMessage, case "sync": getAllChanges() and the
\* sync-data reply
HandleClientSync ==
    /\ dbQueue # <<>>
    /\ Head(dbQueue).op = "sync"
    /\ dbQueue' = Tail(dbQueue)
    /\ LET changes == GetAllChanges
       IN  /\ portIn' = [portIn EXCEPT ![Head(dbQueue).client] =
                             Append(@, SyncDataMsg(changes))]
           /\ served' = [served EXCEPT ![Head(dbQueue).client] =
                             [db |-> workerDb, data |-> changes]]
    /\ UNCHANGED <<rejects, reads, changesSent>>
    /\ UNCHANGED <<syncHandler, inits, stopCalls>>
    /\ UNCHANGED <<cStarted, siteId, localDb, lastBroadcastVersion, syncs, chanIn,
                   applyLog, workerDb, lastDbVersion, wLog>>
    /\ UNCHANGED notSync

\* CRSqliteWorkerBase.handleClientMessage, case "exec", up to the call of
\* broadcastChangesSinceLastVersion(): db.exec inserts the row, then the SELECT is
\* issued with the lastDbVersion of that moment
HandleClientExec ==
    /\ dbQueue # <<>>
    /\ Head(dbQueue).op = "exec"
    /\ LET rec == Insert(workerDb, WorkerSite, Head(dbQueue).table)
       IN  /\ workerDb' = workerDb \cup {rec}
           /\ dbQueue' = Append(Tail(dbQueue),
                                SelectOp(Head(dbQueue).client, lastDbVersion, rec))
    /\ UNCHANGED <<rejects, reads, changesSent>>
    /\ UNCHANGED <<syncHandler, inits, stopCalls>>
    /\ UNCHANGED <<cStarted, siteId, localDb, lastBroadcastVersion, syncs, portIn,
                   chanIn, applyLog, lastDbVersion, wLog, served>>
    /\ UNCHANGED notSync

\* an exec handler that posts the exec-reply and broadcasts afterwards
ReplyThenBroadcast ==
    /\ dbQueue # <<>>
    /\ Head(dbQueue).op = "select"
    /\ dbQueue' = Tail(dbQueue)
    /\ LET job == Head(dbQueue)
           changes == ChangesAfter(workerDb, WorkerSite, job.since)
           reply == [kind |-> "reply", data |-> {}, rec |-> job.rec, to |-> {}]
       IN  /\ portIn' = [portIn EXCEPT ![job.client] = Append(@, ExecReplyMsg(job.rec))]
           /\ IF changes # {}
              THEN /\ lastDbVersion' = MaxVersion(changes)
                   /\ chanIn' = Broadcast(ChangesApplied(changes, 0))
                   /\ wLog' = wLog \o <<reply,
                                  [kind |-> "broadcast", data |-> changes,
                                   rec |-> NoRecord, to |-> Subscribed]>>
              ELSE /\ wLog' = Append(wLog, reply)
                   /\ UNCHANGED <<lastDbVersion, chanIn>>
    /\ UNCHANGED <<rejects, reads, changesSent>>
    /\ UNCHANGED <<syncHandler, inits, stopCalls>>
    /\ UNCHANGED <<cStarted, siteId, localDb, lastBroadcastVersion, syncs, applyLog,
                   workerDb, served>>
    /\ UNCHANGED notSync

\* broadcastChangesSinceLastVersion() from the result of its SELECT on, and the
\* exec-reply that handleClientMessage posts once it has returned
BroadcastChangesSinceLastVersion ==
    /\ dbQueue # <<>>
    /\ Head(dbQueue).op = "select"
    /\ dbQueue' = Tail(dbQueue)
    /\ LET job == Head(dbQueue)
           changes == ChangesAfter(workerDb, WorkerSite, job.since)
           reply == [kind |-> "reply", data |-> {}, rec |-> job.rec, to |-> {}]
       IN  /\ portIn' = [portIn EXCEPT ![job.client] = Append(@, ExecReplyMsg(job.rec))]
           /\ IF changes # {}
              THEN /\ lastDbVersion' = MaxVersion(changes)
                   /\ chanIn' = Broadcast(ChangesApplied(changes, 0))
                   /\ wLog' = wLog \o <<[kind |-> "broadcast", data |-> changes,
                                         rec |-> NoRecord, to |-> Subscribed],
                                        reply>>
              ELSE /\ wLog' = Append(wLog, reply)
                   /\ UNCHANGED <<lastDbVersion, chanIn>>
    /\ UNCHANGED <<rejects, reads, changesSent>>
    /\ UNCHANGED <<syncHandler, inits, stopCalls>>
    /\ UNCHANGED <<cStarted, siteId, localDb, lastBroadcastVersion, syncs, applyLog,
                   workerDb, served>>
    /\ UNCHANGED notSync

\* a handler that passes the changes on whether or not they were applied
WorkerPassesOnAnyway ==
    /\ dbQueue # <<>>
    /\ Head(dbQueue).op = "changes"
    /\ dbQueue' = Tail(dbQueue)
    /\ workerDb' = Tx(workerDb, rejects[0], Head(dbQueue).data).db
    /\ chanIn' = Broadcast(ChangesApplied(Head(dbQueue).data, Head(dbQueue).client))
    /\ UNCHANGED <<rejects, reads, changesSent>>
    /\ UNCHANGED <<syncHandler, inits, stopCalls>>
    /\ UNCHANGED <<cStarted, siteId, localDb, lastBroadcastVersion, syncs, portIn,
                   applyLog, lastDbVersion, wLog, served>>
    /\ UNCHANGED notSync

\* CRSqliteWorkerBase.handleBroadcastMessage: the changes of a tab are applied to
\* the worker's store and passed on as "changes-applied" with the tab's sourceTabId;
\* when applyChanges throws the error is logged and nothing is passed on
WorkerHandleBroadcastMessage ==
    /\ dbQueue # <<>>
    /\ Head(dbQueue).op = "changes"
    /\ dbQueue' = Tail(dbQueue)
    /\ LET tx == Tx(workerDb, rejects[0], Head(dbQueue).data)
       IN  /\ workerDb' = tx.db
           /\ chanIn' = IF tx.threw THEN chanIn
                        ELSE Broadcast(ChangesApplied(Head(dbQueue).data,
                                                      Head(dbQueue).client))
    /\ UNCHANGED <<rejects, reads, changesSent>>
    /\ UNCHANGED <<syncHandler, inits, stopCalls>>
    /\ UNCHANGED <<cStarted, siteId, localDb, lastBroadcastVersion, syncs, portIn,
                   applyLog, lastDbVersion, wLog, served>>
    /\ UNCHANGED notSync

\* CRSqliteWorkerClientBase.handleWorkerMessage for the next response on the port
ClientHandleWorkerMessage(t) ==
    /\ portIn[t] # <<>>
    /\ portIn' = [portIn EXCEPT ![t] = Tail(@)]
    /\ LET m == Head(portIn[t])
           ap == ApplyChanges(t, "sync-data", m.data)
       IN  IF m.type = "sync-data" /\ OnSyncDataReceived(t) /\ m.data # {}
           THEN /\ localDb' = [localDb EXCEPT ![t] = ap.db]
                /\ applyLog' = [applyLog EXCEPT ![t] = Append(@, ap.entry)]
                /\ lastBroadcastVersion' =
                       [lastBroadcastVersion EXCEPT ![t] =
                            IF ap.entry.threw THEN @ ELSE MaxVersion(m.data)]
           ELSE UNCHANGED <<localDb, applyLog, lastBroadcastVersion>>
    /\ UNCHANGED <<rejects, reads, changesSent>>
    /\ UNCHANGED <<syncHandler, inits, stopCalls>>
    /\ UNCHANGED <<cStarted, siteId, syncs, chanIn, workerDb, lastDbVersion, dbQueue,
                   wLog, served>>
    /\ UNCHANGED notSync

\* setupPortHandlers(port) of the worker posts { type: "ready" } on the port of
\* client t before it handles the client's first message; the worker's log keeps
\* that it did
PostReady(t) ==
    /\ \E i \in 1..Len(dbQueue) : dbQueue[i] = SyncOp(t)
    /\ \A i \in 1..Len(wLog) : ~(wLog[i].kind = "ready" /\ wLog[i].to = {t})
    /\ portIn' = [portIn EXCEPT ![t] = Append(@, ReadyMsg)]
    /\ wLog' = Append(wLog, [kind |-> "ready", data |-> {}, rec |-> NoRecord, to |-> {t}])
    /\ UNCHANGED <<rejects, reads, changesSent>>
    /\ UNCHANGED <<syncHandler, inits, stopCalls>>
    /\ UNCHANGED <<cStarted, siteId, localDb, lastBroadcastVersion, syncs, chanIn,
                   applyLog, workerDb, lastDbVersion, dbQueue, served>>
    /\ UNCHANGED notSync

\* CRSqliteWorkerBase.handleClientMessage, case "sync", when getAllChanges()
\* throws: the catch posts { type: "error" } on the port; the worker's log keeps
\* that it did
PostError ==
    /\ dbQueue # <<>>
    /\ Head(dbQueue).op = "sync"
    /\ \A i \in 1..Len(wLog) : wLog[i].kind # "error"
    /\ dbQueue' = Tail(dbQueue)
    /\ portIn' = [portIn EXCEPT ![Head(dbQueue).client] = Append(@, ErrorMsg)]
    /\ wLog' = Append(wLog, [kind |-> "error", data |-> {}, rec |-> NoRecord,
                             to |-> {Head(dbQueue).client}])
    /\ UNCHANGED <<rejects, reads, changesSent>>
    /\ UNCHANGED <<syncHandler, inits, stopCalls>>
    /\ UNCHANGED <<cStarted, siteId, localDb, lastBroadcastVersion, syncs, chanIn,
                   applyLog, workerDb, lastDbVersion, served>>
    /\ UNCHANGED notSync

\* a handler of broadcasts that moves lastBroadcastVersion up to what it applied
HandleBroadcastMovesMark(t) ==
    /\ chanIn[t] # <<>>
    /\ chanIn' = [chanIn EXCEPT ![t] = Tail(@)]
    /\ LET m == Head(chanIn[t])
           ap == ApplyChanges(t, "changes-applied", m.data)
       IN  IF m.sourceTabId # t /\ m.type = "changes-applied" /\ m.data # {}
           THEN /\ localDb' = [localDb EXCEPT ![t] = ap.db]
                /\ applyLog' = [applyLog EXCEPT ![t] = Append(@, ap.entry)]
                /\ lastBroadcastVersion' =
                       [lastBroadcastVersion EXCEPT ![t] = MaxVersion(m.data)]
           ELSE UNCHANGED <<localDb, applyLog, lastBroadcastVersion>>
    /\ UNCHANGED <<rejects, reads, changesSent>>
    /\ UNCHANGED <<syncHandler, inits, stopCalls>>
    /\ UNCHANGED <<cStarted, siteId, syncs, portIn, workerDb,
                   lastDbVersion, dbQueue, wLog, served>>
    /\ UNCHANGED notSync

\* CRSqliteWorkerClientBase.handleBroadcastMessage for the next "db-sync" message
ClientHandleBroadcastMessage(t) ==
    /\ chanIn[t] # <<>>
    /\ chanIn' = [chanIn EXCEPT ![t] = Tail(@)]
    /\ LET m == Head(chanIn[t])
           ap == ApplyChanges(t, "changes-applied", m.data)
       IN  IF m.sourceTabId # t /\ m.type = "changes-applied" /\ m.data # {}
           THEN /\ localDb' = [localDb EXCEPT ![t] = ap.db]
                /\ applyLog' = [applyLog EXCEPT ![t] = Append(@, ap.entry)]
           ELSE UNCHANGED <<localDb, applyLog>>
    /\ UNCHANGED <<rejects, reads, changesSent>>
    /\ UNCHANGED <<syncHandler, inits, stopCalls>>
    /\ UNCHANGED <<cStarted, siteId, lastBroadcastVersion, syncs, portIn, workerDb,
                   lastDbVersion, dbQueue, wLog, served>>
    /\ UNCHANGED notSync

\* SELECT db_version FROM crsql_changes WHERE site_id = crsql_site_id(): the
\* versions of the rows the query can return first, as it names no order
FirstRowVersions(db) == {r.db_version : r \in {x \in db : x.site_id = WorkerSite}}

\* CRSqliteWorkerBase.initialize() of a worker constructed over the store an
\* earlier worker instance has left: this.lastDbVersion = result?.[0]?.db_version || 0
WorkerInitialize ==
    /\ inits < MaxInit
    /\ dbQueue = <<>>
    /\ inits' = inits + 1
    /\ IF FirstRowVersions(workerDb) = {}
       THEN lastDbVersion' = 0
       ELSE \E v \in FirstRowVersions(workerDb) : lastDbVersion' = v
    /\ UNCHANGED <<rejects, reads, changesSent, syncHandler, stopCalls>>
    /\ UNCHANGED <<cStarted, siteId, localDb, lastBroadcastVersion, syncs, portIn,
                   chanIn, applyLog, workerDb, dbQueue, wLog, served>>
    /\ UNCHANGED notSync

\* the cells of table "todo_list" a client can write
ClientKeys == {<<"todo_list", pk, Site(t)>> : pk \in 1..MaxLocal, t \in Clients}

\* the number of cells the stores reject
Rejected == Cardinality({<<s, k>> \in Stores \X ClientKeys : k \in rejects[s]})

\* from now on the INSERT INTO crsql_changes of cell k throws in store s
StoreRejects(s, k) ==
    /\ Rejected < MaxReject
    /\ rejects' = [rejects EXCEPT ![s] = @ \cup {k}]
    /\ UNCHANGED <<reads, changesSent>>
    /\ UNCHANGED <<syncHandler, inits, stopCalls>>
    /\ UNCHANGED <<cStarted, siteId, localDb, lastBroadcastVersion, syncs, portIn,
                   chanIn, applyLog, workerDb, lastDbVersion, dbQueue, wLog, served>>
    /\ UNCHANGED notSync

\* the clients start, write into their local stores and broadcast their changes;
\* the worker merges them and passes them on
NextPropagate ==
    \/ \E t \in Clients : BrowserStart(t)
    \/ \E t \in Clients : SiteIdRead(t)
    \/ \E t \in Clients, tb \in Tables : LocalWrite(t, tb)
    \/ \E t \in Clients : TriggerSync(t)
    \/ HandleClientSync
    \/ WorkerHandleBroadcastMessage
    \/ \E t \in Clients : ClientHandleWorkerMessage(t)
    \/ \E t \in Clients : ClientHandleBroadcastMessage(t)

\* CRSqliteWorkerClientBase.stop() of a started client: isStarted and
\* lastBroadcastVersion are reset (CRSqliteTabSync.stop() assigns the same)
BaseStop(t) ==
    /\ cStarted[t]
    /\ stopCalls < MaxBaseStop
    /\ stopCalls' = stopCalls + 1
    /\ cStarted' = [cStarted EXCEPT ![t] = FALSE]
    /\ lastBroadcastVersion' = [lastBroadcastVersion EXCEPT ![t] = 0]
    /\ UNCHANGED <<rejects, reads, changesSent, syncHandler, inits>>
    /\ UNCHANGED <<siteId, localDb, syncs, portIn, chanIn, applyLog, workerDb,
                   lastDbVersion, dbQueue, wLog, served>>
    /\ UNCHANGED notSync

\* client 1 starts, writes one row locally and broadcasts it, writes through
\* dbExec before the worker has posted anything, and stops; the worker merges,
\* executes, answers, and posts a ready and an error envelope
NextFrame ==
    \/ BrowserStart(1)
    \/ SiteIdRead(1)
    \/ LocalRows = {} /\ LocalWrite(1, "todo_list")
    \/ TriggerSync(1)
    \/ wLog = <<>> /\ DbExecWrite(1, "todo_list")
    \/ PostReady(1)
    \/ PostError
    \/ BaseStop(1)
    \/ HandleClientSync
    \/ HandleClientExec
    \/ BroadcastChangesSinceLastVersion
    \/ WorkerHandleBroadcastMessage
    \/ \E t \in Clients : ClientHandleWorkerMessage(t)
    \/ \E t \in Clients : ClientHandleBroadcastMessage(t)

\* the clients start, write and broadcast their changes while stores reject cells;
\* the worker merges what it can and passes it on
NextFaulty ==
    \/ \E s \in Stores, k \in ClientKeys : StoreRejects(s, k)
    \/ \E t \in Clients : BrowserStart(t)
    \/ \E t \in Clients : SiteIdRead(t)
    \/ \E t \in Clients, tb \in Tables : LocalWrite(t, tb)
    \/ \E t \in Clients : TriggerSync(t)
    \/ HandleClientSync
    \/ WorkerHandleBroadcastMessage
    \/ \E t \in Clients : ClientHandleWorkerMessage(t)
    \/ \E t \in Clients : ClientHandleBroadcastMessage(t)

\* the clients start and write; their triggerSync calls overlap; the worker merges
\* and answers the initial sync requests; the broadcasts it passes on are not
\* dispatched yet
NextOverlap ==
    \/ \E t \in Clients : BrowserStart(t)
    \/ \E t \in Clients : SiteIdRead(t)
    \/ \E t \in Clients, tb \in Tables : LocalWrite(t, tb)
    \/ \E t \in Clients : TriggerSyncCall(t)
    \/ \E t \in Clients : CheckForLocalChangesResume(t)
    \/ HandleClientSync
    \/ WorkerHandleBroadcastMessage
    \/ \E t \in Clients : ClientHandleWorkerMessage(t)

\* the clients start and write through dbExec; the worker executes, broadcasts and
\* replies, and a new worker instance initializes over the store
NextRestart ==
    \/ \E t \in Clients : BrowserStart(t)
    \/ \E t \in Clients : SiteIdRead(t)
    \/ \E t \in Clients, tb \in Tables : DbExecWrite(t, tb)
    \/ HandleClientSync
    \/ HandleClientExec
    \/ BroadcastChangesSinceLastVersion
    \/ WorkerInitialize
    \/ \E t \in Clients : ClientHandleWorkerMessage(t)
    \/ \E t \in Clients : ClientHandleBroadcastMessage(t)

\* the clients start, write, broadcast and request syncs; the worker merges and
\* answers; the broadcasts the worker passes on are not dispatched yet
NextResync ==
    \/ \E t \in Clients : BrowserStart(t)
    \/ \E t \in Clients : SiteIdRead(t)
    \/ \E t \in Clients : RequestSync(t)
    \/ \E t \in Clients, tb \in Tables : LocalWrite(t, tb)
    \/ \E t \in Clients : TriggerSync(t)
    \/ HandleClientSync
    \/ WorkerHandleBroadcastMessage
    \/ \E t \in Clients : ClientHandleWorkerMessage(t)

\* the clients start and write through dbExec; the worker executes, broadcasts and
\* replies
NextRemoteWrite ==
    \/ \E t \in Clients : BrowserStart(t)
    \/ \E t \in Clients : SiteIdRead(t)
    \/ \E t \in Clients, tb \in Tables : DbExecWrite(t, tb)
    \/ HandleClientSync
    \/ HandleClientExec
    \/ BroadcastChangesSinceLastVersion
    \/ \E t \in Clients : ClientHandleWorkerMessage(t)
    \/ \E t \in Clients : ClientHandleBroadcastMessage(t)

(***************************************************************************)
(* Part 5.  Start of a worker: CRSqliteWorkerBase.start() with the queues  *)
(* of CRSqliteDedicatedWorker (pending) and CRSqliteSharedWorker           *)
(* (pendingPorts).  The dedicated worker has one connection, port 0, its   *)
(* global scope; the shared worker one MessagePort per connected tab.      *)
(***************************************************************************)
WPorts == IF wClass = "dedicated" THEN {0} ELSE 1..NumPorts

\* the n-th message that reached the worker, sent on port p
WMsg(p, n) == [port |-> p, n |-> n]

\* handleClientMessage(message, port): a request is answered from the store when
\* the worker is started, with the error "Worker not started" otherwise
HandleClientMessage(m) ==
    [port |-> m.port, n |-> m.n,
     answer |-> IF wPhase = "started" THEN "sync-data" ELSE "Worker not started"]

\* the calls of handleClientMessage for the messages of q, in the order of q
HandleAll(q) == [i \in 1..Len(q) |-> [port |-> q[i].port, n |-> q[i].n,
                                       answer |-> "sync-data"]]

\* the messages of port p in a sequence of messages or calls
RECURSIVE OfPort(_, _)
OfPort(q, p) ==
    IF q = <<>> THEN <<>>
    ELSE (IF Head(q).port = p THEN <<WMsg(p, Head(q).n)>> ELSE <<>>)
         \o OfPort(Tail(q), p)

InitStart ==
    /\ wClass \in {"dedicated", "shared"}
    /\ wPhase = "created"
    /\ wPending = <<>>
    /\ pendingPorts = <<>>
    /\ wConnected = {}
    /\ wPortOpen = [p \in 0..NumPorts |-> p = 0 /\ wClass = "dedicated"]
    /\ wPortQ = [p \in 0..NumPorts |-> <<>>]
    /\ arrivals = <<>>
    /\ handledLog = <<>>

\* CRSqliteWorkerBase.start() up to await this.initialize()
WorkerStartCall ==
    /\ wPhase = "created"
    /\ wPhase' = "initializing"
    /\ UNCHANGED <<wClass, wPending, pendingPorts, wConnected, wPortOpen, wPortQ,
                   arrivals, handledLog>>
    /\ UNCHANGED notStart

\* initialize() has read lastDbVersion and the site id: the base class sets
\* isStarted, and the subclass's start() continues in the same task.  The dedicated
\* worker posts ready and handles this.pending in order; the shared worker sets up
\* the handlers of the pending ports (processPendingPorts)
WorkerInitialized ==
    /\ wPhase = "initializing"
    /\ wPhase' = "started"
    /\ IF wClass = "dedicated"
       THEN /\ handledLog' = handledLog \o HandleAll(wPending)
            /\ wPending' = <<>>
            /\ UNCHANGED <<pendingPorts, wPortOpen>>
       ELSE /\ wPortOpen' = [p \in 0..NumPorts |->
                                wPortOpen[p] \/ \E i \in 1..Len(pendingPorts) :
                                                   pendingPorts[i] = p]
            /\ pendingPorts' = <<>>
            /\ UNCHANGED <<wPending, handledLog>>
    /\ UNCHANGED <<wClass, wConnected, wPortQ, arrivals>>
    /\ UNCHANGED notStart

\* CRSqliteSharedWorker.onConnect(port)
OnConnect(p) ==
    /\ wClass = "shared"
    /\ p \notin wConnected
    /\ wConnected' = wConnected \cup {p}
    /\ IF wPhase = "started"
       THEN /\ wPortOpen' = [wPortOpen EXCEPT ![p] = TRUE]
            /\ UNCHANGED pendingPorts
       ELSE /\ pendingPorts' = Append(pendingPorts, p)
            /\ UNCHANGED wPortOpen
    /\ UNCHANGED <<wClass, wPhase, wPending, wPortQ, arrivals, handledLog>>
    /\ UNCHANGED notStart

\* a message of a client reaches the worker on port p
Arrive(p) ==
    /\ Len(arrivals) < MaxMsg
    /\ LET m == WMsg(p, Len(arrivals) + 1)
       IN  /\ arrivals' = Append(arrivals, [port |-> p, n |-> m.n,
                                            early |-> wPhase # "started"])
           /\ wPortQ' = [wPortQ EXCEPT ![p] = Append(@, m)]
    /\ UNCHANGED <<wClass, wPhase, wPending, pendingPorts, wConnected, wPortOpen,
                   handledLog>>
    /\ UNCHANGED notStart

\* a listener that hands every message to handleClientMessage at once
MessageListenerNoQueue(p) ==
    /\ wPortOpen[p]
    /\ wPortQ[p] # <<>>
    /\ wPortQ' = [wPortQ EXCEPT ![p] = Tail(@)]
    /\ handledLog' = Append(handledLog, HandleClientMessage(Head(wPortQ[p])))
    /\ UNCHANGED wPending
    /\ UNCHANGED <<wClass, wPhase, pendingPorts, wConnected, wPortOpen, arrivals>>
    /\ UNCHANGED notStart

\* the message listener of port p is run for the port's next message: the
\* dedicated worker's listener queues it while the worker is not started, the
\* shared worker's listener (attached by setupPortHandlers) calls
\* handleClientMessage
MessageListener(p) ==
    /\ wPortOpen[p]
    /\ wPortQ[p] # <<>>
    /\ wPortQ' = [wPortQ EXCEPT ![p] = Tail(@)]
    /\ IF wClass = "dedicated" /\ wPhase # "started"
       THEN /\ wPending' = Append(wPending, Head(wPortQ[p]))
            /\ UNCHANGED handledLog
       ELSE /\ handledLog' = Append(handledLog, HandleClientMessage(Head(wPortQ[p])))
            /\ UNCHANGED wPending
    /\ UNCHANGED <<wClass, wPhase, pendingPorts, wConnected, wPortOpen, arrivals>>
    /\ UNCHANGED notStart

NextStart ==
    \/ WorkerStartCall
    \/ WorkerInitialized
    \/ \E p \in WPorts : OnConnect(p)
    \/ \E p \in WPorts : Arrive(p)
    \/ \E p \in WPorts : MessageListener(p)

(***************************************************************************)
(* Part 6.  Life cycle of one client: start(), stop(), dbExec() and        *)
(* requestSync() of CRSqliteWorkerClientBrowser (over                      *)
(* CRSqliteWorkerClientBase) and of CRSqliteTabSync.                       *)
(***************************************************************************)
\* the classes of client an application constructs
Klasses == {"browser", "tabsync"}

\* the fields of a client after its constructor
NewClient ==
    [isStarted |-> FALSE, siteId |-> "undefined", port |-> "null",
     broadcastChannel |-> "null", execRequestCounter |-> 0,
     pendingExecRequests |-> <<>>]

\* isRunning(): return this.isStarted
isRunning == client.isStarted

\* this.siteId = siteIdResult?.[0]?.site_id
SiteIdResult == IF storeSiteId THEN "site" ELSE "undefined"

\* the worker handle, the port listener, the channel subscription and the
\* initial { type: "sync" } of a start()
Acquire(c) == [c EXCEPT !.port = "open", !.broadcastChannel = "open"]

Acquired(m) == [m EXCEPT !.handles = @ + 1, !.subscriptions = @ + 1,
                         !.syncs = @ + 1, !.posted = @ + 1]

InitLife ==
    /\ klass \in Klasses
    /\ storeSiteId \in BOOLEAN
    /\ client = NewClient
    /\ reading = 0
    /\ life = "stopped"
    /\ startLog = <<>>
    /\ unhandled = 0
    /\ made = [handles |-> 0, subscriptions |-> 0, syncs |-> 0, posted |-> 0]
    /\ called = [start |-> 0, stop |-> 0, sync |-> 0]
    /\ execCalls = <<>>
    /\ postedStopped = FALSE

\* CRSqliteWorkerClientBrowser.start(): super.start() is called and not
\* awaited, so it runs up to its read of the site id; the rest of the method
\* has no await on the SharedWorker path and runs in the same turn
BrowserStartCall ==
    /\ klass = "browser"
    /\ called.start < MaxStart
    /\ called' = [called EXCEPT !.start = @ + 1]
    /\ reading' = IF client.isStarted THEN reading ELSE reading + 1
    /\ IF client.isStarted
       THEN UNCHANGED <<client, made>>
       ELSE /\ client' = Acquire([client EXCEPT !.isStarted = TRUE])
            /\ made' = Acquired(made)
    /\ startLog' = Append(startLog, "resolved")
    /\ life' = "running"
    /\ UNCHANGED <<klass, storeSiteId, unhandled, execCalls, postedStopped>>
    /\ UNCHANGED notLife

\* CRSqliteWorkerClientBase.start() after its await, run for the browser
\* client: nothing holds the promise, a throw is an unhandled rejection
SuperStartResume ==
    /\ klass = "browser"
    /\ reading > 0
    /\ reading' = reading - 1
    /\ IF SiteIdResult = "undefined"
       THEN /\ client' = [client EXCEPT !.siteId = SiteIdResult]
            /\ unhandled' = unhandled + 1
       ELSE /\ client' = [client EXCEPT !.siteId = SiteIdResult, !.isStarted = TRUE]
            /\ UNCHANGED unhandled
    /\ UNCHANGED <<klass, storeSiteId, life, startLog, made, called, execCalls,
                   postedStopped>>
    /\ UNCHANGED notLife

\* CRSqliteTabSync.start() up to its await of the site id
TabSyncStartCall ==
    /\ klass = "tabsync"
    /\ called.start < MaxStart
    /\ called' = [called EXCEPT !.start = @ + 1]
    /\ IF client.isStarted
       THEN /\ startLog' = Append(startLog, "resolved")
            /\ UNCHANGED <<reading, life>>
       ELSE /\ reading' = reading + 1
            /\ life' = IF life = "stopped" THEN "starting" ELSE life
            /\ UNCHANGED startLog
    /\ UNCHANGED <<klass, storeSiteId, client, unhandled, made, execCalls,
                   postedStopped>>
    /\ UNCHANGED notLife

\* CRSqliteTabSync.start() after the site id was read: it throws "No local
\* site_id" or acquires the worker, subscribes, posts the sync and sets
\* isStarted (no other method of the client acts between its later awaits)
TabSyncStartResume ==
    /\ klass = "tabsync"
    /\ reading > 0
    /\ reading' = reading - 1
    /\ IF SiteIdResult = "undefined"
       THEN /\ client' = [client EXCEPT !.siteId = SiteIdResult]
            /\ startLog' = Append(startLog, "rejected")
            /\ life' = IF life = "starting" /\ reading = 1 THEN "stopped" ELSE life
            /\ UNCHANGED made
       ELSE /\ client' = Acquire([client EXCEPT !.siteId = SiteIdResult,
                                                 !.isStarted = TRUE])
            /\ made' = Acquired(made)
            /\ startLog' = Append(startLog, "resolved")
            /\ life' = "running"
    /\ UNCHANGED <<klass, storeSiteId, unhandled, called, execCalls, postedStopped>>
    /\ UNCHANGED notLife

\* a stop() that also resets execRequestCounter
StopCallResetCounter ==
    /\ client.isStarted
    /\ called.stop < MaxStop
    /\ called' = [called EXCEPT !.stop = @ + 1]
    /\ client' = [client EXCEPT !.broadcastChannel = "null", !.port = "null",
                     !.isStarted = IF klass = "tabsync" THEN FALSE ELSE @,
                     !.execRequestCounter = 0]
    /\ life' = "stopped"
    /\ UNCHANGED <<klass, storeSiteId, reading, startLog, unhandled, made, execCalls,
                   postedStopped>>
    /\ UNCHANGED notLife

\* stop(): CRSqliteWorkerClientBrowser.stop() closes the channel and the port
\* and does not call super.stop(); CRSqliteTabSync.stop() also clears isStarted
StopCall ==
    /\ client.isStarted
    /\ called.stop < MaxStop
    /\ called' = [called EXCEPT !.stop = @ + 1]
    /\ client' = [client EXCEPT !.broadcastChannel = "null", !.port = "null",
                     !.isStarted = IF klass = "tabsync" THEN FALSE ELSE @]
    /\ life' = "stopped"
    /\ UNCHANGED <<klass, storeSiteId, reading, startLog, unhandled, made, execCalls,
                   postedStopped>>
    /\ UNCHANGED notLife

\* dbExec(sql): the id is taken and the entry stored before the post; the
\* browser client's postMessage throws when port and worker are null, which
\* rejects the promise and leaves the entry
DbExecCall ==
    /\ client.isStarted
    /\ klass = "tabsync" => client.port # "null"
    /\ Len(execCalls) < MaxExec
    /\ LET rid == RequestId(client.execRequestCounter)
           call == Len(execCalls) + 1
           posts == client.port # "null"
       IN  /\ client' = [client EXCEPT
                 !.execRequestCounter = @ + 1,
                 !.pendingExecRequests = MapSet(@, rid, call)]
           /\ execCalls' = Append(execCalls,
                 [requestId |-> rid, settled |-> ~posts, stops |-> called.stop])
           /\ made' = [made EXCEPT !.posted = IF posts THEN @ + 1 ELSE @]
           /\ postedStopped' = (postedStopped \/ (posts /\ life = "stopped"))
    /\ UNCHANGED <<klass, storeSiteId, reading, life, startLog, unhandled, called>>
    /\ UNCHANGED notLife

\* requestSync(): posts { type: "sync" } when isStarted; the post throws when
\* the browser client holds no port and no worker
RequestSyncCall ==
    /\ client.isStarted
    /\ called.sync < MaxSync
    /\ called' = [called EXCEPT !.sync = @ + 1]
    /\ LET posts == client.port # "null"
       IN  /\ made' = [made EXCEPT !.posted = IF posts THEN @ + 1 ELSE @]
           /\ postedStopped' = (postedStopped \/ (posts /\ life = "stopped"))
    /\ UNCHANGED <<klass, storeSiteId, client, reading, life, startLog, unhandled,
                   execCalls>>
    /\ UNCHANGED notLife

\* an "exec-reply" or "error" envelope, or the timeout, for the id rid: the
\* entry stored under rid is settled and deleted
ExecSettle(rid) ==
    /\ rid \in DOMAIN client.pendingExecRequests
    /\ LET call == client.pendingExecRequests[rid]
       IN  /\ ~execCalls[call].settled
           /\ execCalls' = [execCalls EXCEPT ![call].settled = TRUE]
    /\ client' = [client EXCEPT !.pendingExecRequests = MapDelete(@, rid)]
    /\ UNCHANGED <<klass, storeSiteId, reading, life, startLog, unhandled, made,
                   called, postedStopped>>
    /\ UNCHANGED notLife

NextLife ==
    \/ BrowserStartCall
    \/ SuperStartResume
    \/ TabSyncStartCall
    \/ TabSyncStartResume
    \/ StopCall
    \/ DbExecCall
    \/ RequestSyncCall
    \/ \E n \in 0..MaxExec : ExecSettle(RequestId(n))

(***************************************************************************)
(* Part 7.  The virtual port of a tab (createVirtualPort) on the topic,    *)
(* the handle's cleanup and the relay of a leader host (fromWorker,        *)
(* toWorker).  The clientId of a tab is its number.                        *)
(***************************************************************************)
ShimReady == [t |-> "__shim_ready", clientId |-> 0, payload |-> NoPayload]
ShimToClient(id, d) == [t |-> "__shim_toClient", clientId |-> id, payload |-> d]

\* a tab before createSharedWorkerShim has made its port
NoPort == [made |-> FALSE, closed |-> FALSE, subscribed |-> FALSE,
           listeners |-> FALSE, chanOpen |-> FALSE, readySub |-> FALSE,
           relay |-> FALSE, electorDead |-> FALSE]

\* a toClientHandler that hands on every toClient payload
ToClientHandlerAnyClient(id, p, msg) ==
    IF ~p.closed /\ msg.t = "__shim_toClient" THEN <<msg.payload>> ELSE <<>>

\* toClientHandler of the port of clientId id: the events it dispatches for msg
ToClientHandler(id, p, msg) ==
    IF ~p.closed /\ msg.t = "__shim_toClient" /\ msg.clientId = id
    THEN <<msg.payload>> ELSE <<>>

\* onmessage?.(ev); for (const fn of listeners) fn(ev)
Dispatch(p, evs) == IF p.listeners THEN evs ELSE <<>>

\* postMessage on a channel of the topic reaches every open chanRxClient
CastClient(q, ports, msg) ==
    [t \in Tabs |-> IF ports[t].chanOpen THEN Append(q[t], msg) ELSE q[t]]

\* ... and every chanRxLeader; of what toWorker does only the answer to a
\* hello shows on the topic, the rest goes to the dedicated worker (part 3)
CastLeader(q, ports, msg) ==
    [t \in Tabs |-> IF ports[t].relay /\ msg.t = "__shim_hello"
                    THEN Append(q[t], msg) ELSE q[t]]

InitPort ==
    /\ vport = [t \in Tabs |-> NoPort]
    /\ rxClient = [t \in Tabs |-> <<>>]
    /\ rxLeader = [t \in Tabs |-> <<>>]
    /\ posted = {}
    /\ seen = [t \in Tabs |-> {}]
    /\ reached = [t \in Tabs |-> <<>>]
    /\ delivered = [t \in Tabs |-> <<>>]
    /\ portCalls = [post |-> [t \in Tabs |-> 0], close |-> [t \in Tabs |-> 0],
                    terminate |-> [t \in Tabs |-> 0],
                    disconnects |-> [t \in Tabs |-> 0], replies |-> 0]

\* chan.postMessage(msg) with the ports as they are in ps and the envelopes
\* on their way to the relays in ql
TopicPost(ps, ql, msg) ==
    /\ posted' = posted \cup {msg}
    /\ rxClient' = CastClient(rxClient, ps, msg)
    /\ rxLeader' = CastLeader(ql, ps, msg)

\* the end of createSharedWorkerShim in tab t: createVirtualPort, the hello and
\* the handle; leads tells whether the tab, as the leader, has started the
\* leader host before
CreateVirtualPort(t, leads) ==
    /\ ~vport[t].made
    /\ leads => \A u \in Tabs : ~vport[u].relay
    /\ LET ps == [vport EXCEPT ![t] =
                     [NoPort EXCEPT !.made = TRUE, !.subscribed = TRUE,
                                    !.chanOpen = TRUE, !.readySub = TRUE,
                                    !.relay = leads]]
       IN  /\ vport' = ps
           /\ TopicPost(ps, rxLeader, ShimHello(t))
    /\ UNCHANGED <<seen, reached, delivered, portCalls>>
    /\ UNCHANGED notPort

\* port.addEventListener("message", fn) by the consumer of the port
PortAddEventListener(t) ==
    /\ vport[t].made
    /\ ~vport[t].listeners
    /\ vport' = [vport EXCEPT ![t].listeners = TRUE]
    /\ UNCHANGED <<rxClient, rxLeader, posted, seen, reached, delivered, portCalls>>
    /\ UNCHANGED notPort

\* port.postMessage(data)
VirtualPortPostMessage(t) ==
    /\ vport[t].made
    /\ portCalls.post[t] < MaxSend
    /\ portCalls' = [portCalls EXCEPT !.post[t] = @ + 1]
    /\ IF vport[t].closed
       THEN UNCHANGED <<posted, rxClient, rxLeader>>
       ELSE TopicPost(vport, rxLeader, ShimToLeader(t, Sync(portCalls.post[t] + 1)))
    /\ UNCHANGED <<vport, seen, reached, delivered>>
    /\ UNCHANGED notPort

\* chanRxClient of tab t dispatches an envelope: readyHandler and, while it is
\* subscribed, toClientHandler
ChanRxClientMessage(t) ==
    /\ rxClient[t] # <<>>
    /\ rxClient' = [rxClient EXCEPT ![t] = Tail(@)]
    /\ LET msg == Head(rxClient[t])
           evs == ToClientHandler(t, vport[t], msg)
       IN  IF vport[t].subscribed
           THEN /\ seen' = [seen EXCEPT ![t] = @ \cup {msg}]
                /\ reached' = [reached EXCEPT ![t] = @ \o evs]
                /\ delivered' = [delivered EXCEPT ![t] = @ \o Dispatch(vport[t], evs)]
           ELSE UNCHANGED <<seen, reached, delivered>>
    /\ UNCHANGED <<vport, rxLeader, posted, portCalls>>
    /\ UNCHANGED notPort

\* toWorker of the relay of tab h for the next envelope of chanRxLeader: it
\* answers a hello with __shim_ready, which throws when the tab has closed
\* chanTxLeader
RelayToWorker(h) ==
    /\ rxLeader[h] # <<>>
    /\ LET msg == Head(rxLeader[h])
           q == [rxLeader EXCEPT ![h] = Tail(@)]
       IN  IF vport[h].chanOpen
           THEN TopicPost(vport, q, ShimReady)
           ELSE /\ rxLeader' = q
                /\ UNCHANGED <<posted, rxClient>>
    /\ UNCHANGED <<vport, seen, reached, delivered, portCalls>>
    /\ UNCHANGED notPort

\* fromWorker of the relay of tab h: the dedicated worker posted a payload for
\* client c; the rebroadcast throws when the tab has closed chanTxLeader
RelayFromWorker(h, c) ==
    /\ vport[h].relay
    /\ portCalls.replies < MaxReply
    /\ portCalls' = [portCalls EXCEPT !.replies = @ + 1]
    /\ IF vport[h].chanOpen
       THEN TopicPost(vport, rxLeader, ShimToClient(c, SyncData(portCalls.replies + 1)))
       ELSE UNCHANGED <<posted, rxClient, rxLeader>>
    /\ UNCHANGED <<vport, seen, reached, delivered>>
    /\ UNCHANGED notPort

\* a close() that has no closed flag to return on
VirtualPortCloseAgain(t) ==
    /\ vport[t].made
    /\ vport[t].chanOpen
    /\ portCalls.close[t] + portCalls.terminate[t] < MaxClose
    /\ portCalls' = [portCalls EXCEPT !.close[t] = @ + 1, !.disconnects[t] = @ + 1]
    /\ vport' = [vport EXCEPT ![t].closed = TRUE, ![t].subscribed = FALSE]
    /\ TopicPost(vport, rxLeader, ShimDisconnect(t))
    /\ UNCHANGED <<seen, reached, delivered>>
    /\ UNCHANGED notPort

\* port.close() while the handle's channels are open
VirtualPortClose(t) ==
    /\ vport[t].made
    /\ vport[t].chanOpen
    /\ portCalls.close[t] + portCalls.terminate[t] < MaxClose
    /\ IF vport[t].closed
       THEN /\ portCalls' = [portCalls EXCEPT !.close[t] = @ + 1]
            /\ UNCHANGED <<vport, posted, rxClient, rxLeader>>
       ELSE /\ portCalls' = [portCalls EXCEPT !.close[t] = @ + 1,
                                              !.disconnects[t] = @ + 1]
            /\ vport' = [vport EXCEPT ![t].closed = TRUE, ![t].subscribed = FALSE]
            /\ TopicPost(vport, rxLeader, ShimDisconnect(t))
    /\ UNCHANGED <<seen, reached, delivered>>
    /\ UNCHANGED notPort

\* terminate() of the handle (cleanup): port.close(), readyHandler removed,
\* elector.die(), chanRxClient and chanTxClient closed
Cleanup(t) ==
    /\ vport[t].made
    /\ portCalls.close[t] + portCalls.terminate[t] < MaxClose
    /\ vport' = [vport EXCEPT ![t].closed = TRUE, ![t].subscribed = FALSE,
                              ![t].readySub = FALSE, ![t].electorDead = TRUE,
                              ![t].chanOpen = FALSE]
    /\ IF vport[t].closed
       THEN /\ portCalls' = [portCalls EXCEPT !.terminate[t] = @ + 1]
            /\ rxClient' = [rxClient EXCEPT ![t] = <<>>]
            /\ UNCHANGED <<posted, rxLeader>>
       ELSE /\ portCalls' = [portCalls EXCEPT !.terminate[t] = @ + 1,
                                              !.disconnects[t] = @ + 1]
            /\ posted' = posted \cup {ShimDisconnect(t)}
            /\ rxClient' = [CastClient(rxClient, vport, ShimDisconnect(t))
                               EXCEPT ![t] = <<>>]
            /\ rxLeader' = CastLeader(rxLeader, vport, ShimDisconnect(t))
    /\ UNCHANGED <<seen, reached, delivered>>
    /\ UNCHANGED notPort

\* delivery: the ports, their consumers, the relay and the workers' replies
NextPort ==
    \/ \E t \in Tabs, leads \in BOOLEAN : CreateVirtualPort(t, leads)
    \/ \E t \in Tabs : PortAddEventListener(t)
    \/ \E t \in Tabs : ChanRxClientMessage(t)
    \/ \E h \in Tabs : RelayToWorker(h)
    \/ \E h \in Tabs, c \in Tabs : RelayFromWorker(h, c)

\* the ports with consumers that post and close, where the tab that hosts the
\* relay keeps its own port open
NextClose ==
    \/ \E t \in Tabs, leads \in BOOLEAN : CreateVirtualPort(t, leads)
    \/ \E t \in Tabs : PortAddEventListener(t)
    \/ \E t \in Tabs : ~vport[t].relay /\ VirtualPortPostMessage(t)
    \/ \E t \in Tabs : ChanRxClientMessage(t)
    \/ \E h \in Tabs, c \in Tabs : RelayFromWorker(h, c)
    \/ \E t \in Tabs : ~vport[t].relay /\ VirtualPortClose(t)

\* the handles being terminated while the relay and the workers go on
NextTerminate ==
    \/ \E t \in Tabs, leads \in BOOLEAN : CreateVirtualPort(t, leads)
    \/ \E t \in Tabs : ChanRxClientMessage(t)
    \/ \E h \in Tabs : RelayToWorker(h)
    \/ \E h \in Tabs, c \in Tabs : RelayFromWorker(h, c)
    \/ \E t \in Tabs : Cleanup(t)

(***************************************************************************)
(* Part 8.  One leader host from its start: toWorker posts what it observes *)
(* on the topic to the dedicated worker, whose bootstrap connects the      *)
(* clients and hands their messages to the worker-side ports.              *)
(***************************************************************************)
\* the envelopes of kind k that client c posted and toWorker observed
ObservedOf(c, k) == SelectSeq(observed, LAMBDA m : m.t = k /\ m.clientId = c)

\* the numbers of the requests of client c that the worker has handled, in order
HandledOf(c) ==
    LET a == SelectSeq(boot.out, LAMBDA m : m.toClient = c /\ m.payload.type = "sync-data")
    IN  [i \in 1..Len(a) |-> a[i].payload.n]

\* the numbers of the requests of client c that toWorker observed, in order
RequestsOf(c) ==
    LET a == ObservedOf(c, "__shim_toLeader")
    IN  [i \in 1..Len(a) |-> a[i].payload.n]

\* what a client posts on the topic in the order it can post it: its hellos
\* (the conditional one and the one after createVirtualPort), its requests, and
\* a disconnect; a relay that subscribes late observes a suffix
NextEnvelopes(c) ==
    IF ObservedOf(c, "__shim_disconnect") # <<>> THEN {}
    ELSE (IF RequestsOf(c) = <<>> /\ Len(ObservedOf(c, "__shim_hello")) < 2
          THEN {ShimHello(c)} ELSE {})
         \cup {ShimToLeader(c, Sync(Len(RequestsOf(c)) + 1)), ShimDisconnect(c)}

InitBoot ==
    /\ boot = StartLeaderHost([t \in Tabs |-> NoHost], 1)[1]
    /\ observed = <<>>
    /\ early = {}

\* toWorker: chanRxLeader hands it the envelope msg of client c
BootToWorker(c, msg) ==
    /\ Len(observed) < MaxCmd
    /\ msg \in NextEnvelopes(c)
    /\ observed' = Append(observed, msg)
    /\ boot' = [boot EXCEPT !.inq = Append(@, ToWorkerCmd(msg))]
    /\ UNCHANGED early
    /\ UNCHANGED notBoot

\* self.onmessage of the bootstrap for the next command
BootOnMessage ==
    /\ boot.inq # <<>>
    /\ LET m == Head(boot.inq)
           direct == m.clientId \in DOMAIN boot.clients /\ boot.phase = "started"
       IN  /\ boot' = [OnMessage(boot, m) EXCEPT !.inq = Tail(boot.inq)]
           /\ early' = IF m.cmd = "__fromClient" /\ ~direct
                       THEN early \cup {<<m.clientId, m.payload.n>>} ELSE early
    /\ UNCHANGED observed
    /\ UNCHANGED notBoot

\* the import of the worker script completes (as WorkerLoaded)
BootLoaded ==
    /\ boot.phase = "loading"
    /\ boot' = [ConnectAll([boot EXCEPT !.phase = "loaded"], boot.pend)
                   EXCEPT !.pend = <<>>]
    /\ UNCHANGED <<observed, early>>
    /\ UNCHANGED notBoot

\* CRSqliteSharedWorker.start completes (as WorkerStart)
BootStarted ==
    /\ boot.phase = "loaded"
    /\ boot' = [boot EXCEPT !.phase = "started",
                            !.out = @ \o PortReadys(boot.ports)
                                      \o PortAnswers(boot.ports, 1),
                            !.ports = [i \in 1..Len(boot.ports) |->
                                          [boot.ports[i] EXCEPT !.q = <<>>]]]
    /\ UNCHANGED <<observed, early>>
    /\ UNCHANGED notBoot

NextBoot ==
    \/ \E c \in Tabs : \E msg \in NextEnvelopes(c) : BootToWorker(c, msg)
    \/ BootOnMessage
    \/ BootLoaded
    \/ BootStarted

vars == <<execVars, nameVars, shimVars, syncVars, startVars, lifeVars, portVars, bootVars>>

NextExec ==
    \/ ClientStart
    \/ ClientStop
    \/ \E sql \in SqlSet : DbExec(sql)
    \/ \E m \in toWorkerNet : WorkerHandleExec(m)
    \/ \E m \in toClientNet : HandleWorkerMessage(m)
    \/ \E t \in timers : ExecTimeout(t)

\* the worker of part 5 and the client of part 6 where they take no step
IdleStart == InitStart /\ wClass = "dedicated"

IdleLife == InitLife /\ klass = "browser" /\ storeSiteId

Init == InitExec /\ InitName /\ InitShim /\ InitSync /\ IdleStart /\ IdleLife
           /\ InitPort /\ InitBoot

\* part 5 with a worker of either class
InitWorker == InitExec /\ InitName /\ InitShim /\ InitSync /\ InitStart /\ IdleLife
           /\ InitPort /\ InitBoot

\* part 6 with a client of either class over a store with or without a site id
InitClient == InitExec /\ InitName /\ InitShim /\ InitSync /\ IdleStart /\ InitLife
           /\ InitPort /\ InitBoot

SpecExec == Init /\ [][NextExec]_vars

SpecName == Init /\ [][NextName]_vars

SpecPropagate == Init /\ [][NextPropagate]_vars

SpecResync == Init /\ [][NextResync]_vars

SpecStart == InitWorker /\ [][NextStart]_vars

SpecLife == InitClient /\ [][NextLife]_vars

SpecFailure == Init /\ [][NextFailure]_vars

SpecStartup == Init /\ [][NextStartup]_vars

SpecFaulty == Init /\ [][NextFaulty]_vars

SpecOverlap == Init /\ [][NextOverlap]_vars

SpecRestart == Init /\ [][NextRestart]_vars

SpecFrame == Init /\ [][NextFrame]_vars

\* clients of applications that may never call onSyncData(...)
InitUnregistered ==
    /\ InitExec /\ InitName /\ InitShim /\ IdleStart /\ IdleLife /\ InitPort /\ InitBoot
    /\ InitStores
    /\ syncHandler \in [Clients -> BOOLEAN]

SpecUnregistered == InitUnregistered /\ [][NextPropagate]_vars

SpecBoot == Init /\ [][NextBoot]_vars

SpecPort == Init /\ [][NextPort]_vars

SpecClose == Init /\ [][NextClose]_vars

SpecTerminate == Init /\ [][NextTerminate]_vars

SpecRemoteWrite == Init /\ [][NextRemoteWrite]_vars

SpecRelay == Init /\ [][NextRelay]_vars

\* the election and the life cycle of the tabs and their hosts, with the
\* workers left unscheduled
NextElection ==
    \/ \E t \in Tabs : ShimCall(t)
    \/ \E t \in Tabs, hl \in BOOLEAN : ShimResume(t, hl)
    \/ \E t \in Tabs : ReadyHandler(t)
    \/ \E t \in Tabs : BecomeLeader(t)
    \/ \E t \in Tabs, winner \in Tabs : SplitBrain(t, winner)
    \/ \E t \in Tabs : OnDuplicate(t)
    \/ \E t \in Tabs : LeadershipThen(t)
    \/ \E t \in Tabs : Terminate(t)
    \/ \E t \in Tabs, unloaded \in BOOLEAN : CloseTab(t, unloaded)

SpecElection == Init /\ [][NextElection]_vars

\* the electors alone: who holds the leadership, as the calls, the duplicate
\* callbacks, terminate() and closing tabs change it
NextLeadership ==
    \/ \E t \in Tabs : ShimCall(t)
    \/ \E t \in Tabs, hl \in BOOLEAN : ShimResume(t, hl)
    \/ \E t \in Tabs : BecomeLeader(t)
    \/ \E t \in Tabs, winner \in Tabs : SplitBrain(t, winner)
    \/ \E t \in Tabs : OnDuplicate(t)
    \/ \E t \in Tabs : Terminate(t)
    \/ \E t \in Tabs, unloaded \in BOOLEAN : CloseTab(t, unloaded)

SpecLeadership == Init /\ [][NextLeadership]_vars

\* the browser runs every armed timer
FairSpecExec == SpecExec /\ \A t \in [requestId : {RequestId(n) : n \in 0..MaxExec},
                                      call : 1..(MaxExec + 1)] :
                               WF_vars(ExecTimeout(t))

(***************************************************************************)
(* Claims about the remote execution protocol (SpecExec, FairSpecExec).    *)
(***************************************************************************)

\* C8: a dbExec promise that an envelope settled was settled by the envelope
\* carrying the call's own requestId, with the body the worker produced for that
\* request: resolved for an exec-reply, rejected for an error envelope
C8_SettledByOwnEnvelope ==
    \A c \in 1..Len(calls) :
        promise[c].via # NoRequestId =>
            /\ promise[c].via = calls[c].requestId
            /\ calls[c].requestId \in DOMAIN wResult
            /\ promise[c].val = wResult[calls[c].requestId]
            /\ promise[c].st = IF calls[c].sql = "invalid" THEN "rejected" ELSE "resolved"

\* C8 witness: two calls are outstanding, the later one is already resolved by its
\* reply while the reply of the earlier one is still on its way
C8_OutOfOrderReply ==
    /\ Len(calls) >= 2
    /\ promise[2].st = "resolved"
    /\ promise[1].st = "pending"
    /\ \E m \in toClientNet : m.requestId = calls[1].requestId

\* C9: once a call was rejected by its timeout, its entry is gone and an envelope
\* with its requestId that arrives later changes nothing: no second settlement and
\* no callback invoked
C9_LateEnvelopeChangesNothing ==
    \A c \in 1..Len(calls) :
        (promise[c].st = "rejected" /\ promise[c].val = TimeoutError) =>
            /\ calls[c].requestId \notin DOMAIN pendingExecRequests
            /\ calls[c].requestId \notin onErrorLog

\* C10: every dbExec call that was issued is eventually settled
C10_EveryCallSettles ==
    \A c \in 1..(MaxExec + 1) :
        (Len(calls) >= c) ~> (Len(promise) >= c /\ promise[c].st # "pending")

\* C10 witness: a call was rejected by its timeout while the worker never
\* handled its request
C10_TimedOutUnanswered ==
    \E c \in 1..Len(calls) :
        /\ promise[c].st = "rejected"
        /\ promise[c].val = TimeoutError
        /\ \E m \in toWorkerNet : m.requestId = calls[c].requestId

\* C11: a statement that throws on the worker is answered by an error envelope
\* with the request's requestId and the worker's message, the dbExec it settles
\* rejects with that message, and the worker goes on executing the statements
\* of the other requests, whose dbExec resolves
C11_FailedExecRejectsWorkerServes ==
    /\ \A m \in toClientNet :
           m.type = "error" =>
               \E c \in 1..Len(calls) : /\ calls[c].requestId = m.requestId
                                         /\ calls[c].sql = "invalid"
                                         /\ m.body = SqlError
    /\ \A c \in 1..Len(calls) :
           calls[c].requestId \in DOMAIN wResult =>
               IF calls[c].sql = "invalid"
               THEN /\ wResult[calls[c].requestId] = SqlError
                    /\ promise[c].via # NoRequestId =>
                           (promise[c].st = "rejected" /\ promise[c].val = SqlError)
               ELSE /\ wResult[calls[c].requestId].kind = "rows"
                    /\ promise[c].via # NoRequestId => promise[c].st = "resolved"

\* C11 witness: the first call failed on the worker and was rejected with the
\* worker's message, and a later call has been executed and resolved
C11_RejectedThenServed ==
    /\ Len(calls) >= 2
    /\ calls[1].sql = "invalid"
    /\ promise[1].st = "rejected"
    /\ promise[1].val = SqlError
    /\ promise[2].st = "resolved"

(***************************************************************************)
(* Claims about change propagation.                                        *)
(***************************************************************************)

\* C12: a change record whose site_id is the client's own site id, arriving in a
\* sync-data reply or in a changes-applied broadcast, is never inserted into the
\* local store and never causes the tables-changed callback to be invoked.
C12_OwnSiteRecordsAreNoOp ==
    \A t \in Clients : \A i \in 1..Len(applyLog[t]) :
        LET e == applyLog[t][i]
            own == {c \in e.data : c.site_id = Site(t)}
        IN  /\ e.inserted \cap own = {}
            /\ (e.data = own => e.tables = {} /\ e.after = e.before)

C14_VersionsNeverDecrease ==
    [][/\ \A t \in Clients : lastBroadcastVersion'[t] >= lastBroadcastVersion[t]
       /\ lastDbVersion' >= lastDbVersion]_vars

C17_QueuedUntilInitialized ==
    /\ handledLog # <<>> => wPhase = "started"
    /\ \A i \in 1..Len(handledLog) : handledLog[i].answer = "sync-data"
    /\ \A p \in WPorts :
           OfPort(arrivals, p) = OfPort(handledLog, p) \o OfPort(wPending, p) \o wPortQ[p]

\* a shared worker has handled two messages that reached it on different ports
\* before its initialization completed
C17_EarlyMessagesHandled ==
    \E i \in 1..Len(arrivals) : \E j \in 1..Len(arrivals) :
        /\ arrivals[i].early /\ arrivals[j].early
        /\ arrivals[i].port # arrivals[j].port
        /\ \E k \in 1..Len(handledLog) : handledLog[k].n = arrivals[i].n
        /\ \E k \in 1..Len(handledLog) : handledLog[k].n = arrivals[j].n

(***************************************************************************)
(* Claims about the election and the leader hosts (SpecElection,           *)
(* SpecRelay).                                                             *)
(***************************************************************************)

\* C1: in every reachable state at most one tab hosts a live background worker
\* (a dedicated worker with its relay subscribed to the topic)
C1_AtMostOneLiveWorker == Cardinality(LiveHosts) <= 1

\* C2: once the election has produced a leader and no duplicate-detection
\* callback is pending, exactly one tab reports isLeader, and it is a tab whose
\* elector takes part in the election
C2_OneLeaderWhenSettled ==
    ((\A t \in Tabs : ~dupPending[t]) /\ Leaders # {}) =>
        /\ Cardinality(Leaders) = 1
        /\ \A t \in Leaders : Participant(t)

\* C2 witness: a split brain happened, the duplicate callback of the loser has
\* completed, none is pending and one leader is left
C2_SplitBrainSettled ==
    /\ splits > 0
    /\ \E t \in Tabs : dupDone[t]
    /\ \A t \in Tabs : ~dupPending[t]
    /\ Cardinality(Leaders) = 1

\* C3: after the duplicate-detection callback of a tab has completed, the tab
\* has no relay left: its worker gets no relayed traffic and it relays no reply
C3_DuplicateTearsDownHost ==
    \A t \in Tabs : dupDone[t] => hosts[t].relay = "none"

\* C4: after a hosting leader tab is gone and a new leader hosts a worker, every
\* request that a surviving tab whose port was connected (it has received the
\* worker's ready envelope) then posts on that port is answered (stated for the
\* runs in which nothing is left in flight)
C4_AnsweredAfterFailover ==
    Quiescent =>
        \A t \in Tabs :
            (pc[t] = "done" /\ \E i \in 1..Len(received[t]) :
                                   received[t][i] = ReadyEnvelope) =>
                \A n \in sentAfter[t] : Answered(t, n)

\* C5: createSharedWorkerShim returns a handle only after the tab observed a
\* ready announcement or started hosting itself, never while no host is wired
C5_ReturnsAfterReadyOrHosting ==
    \A t \in Tabs : retAt[t] \in {"none", "ready", "hosting"}

\* C7: when the tabs have all started, a leader is elected and nothing is left
\* in flight, there is exactly one leader and every tab has received a ready
\* envelope that carries the worker's siteId
C7_EveryTabReceivesReady ==
    (Quiescent /\ Leaders # {} /\ \A t \in Tabs : pc[t] = "done") =>
        /\ Cardinality(Leaders) = 1
        /\ \A t \in Tabs :
              \E i \in 1..Len(received[t]) : received[t][i] = ReadyEnvelope

(***************************************************************************)
(* Claims about the topic naming (SpecName).                               *)
(***************************************************************************)

\* C6: any two acquisitions of a worker handle for the same workerUrl use the
\* same topic name
C6_SameUrlSameTopic ==
    \A i, j \in 1..Len(acquired) :
        acquired[i].url = acquired[j].url => acquired[i].topic = acquired[j].topic

(***************************************************************************)
(* Claims about the life cycle of a client (SpecLife).                     *)
(***************************************************************************)
\* C18: when the local store supplies no site id, every start() rejects and
\* the client does not become running: isRunning() is false, no worker handle
\* was acquired and no sync request was sent.
C18_NoSiteIdNoStart ==
    ~storeSiteId =>
        /\ ~isRunning
        /\ made.handles = 0
        /\ made.syncs = 0
        /\ \A i \in DOMAIN startLog : startLog[i] = "rejected"

\* C19: after stop() the client is stopped, isRunning() is false and nothing
\* more is posted to the worker; a start() called on a running client
\* acquires no second worker handle, makes no second broadcast subscription
\* and posts no second initial sync request.
C19_StoppedRunningStopped ==
    /\ [](life = "stopped" => (~isRunning /\ ~postedStopped))
    /\ [][(life = "running" /\ called'.start = called.start + 1)
            => (made' = made /\ client' = client /\ life' = life)]_vars

\* C20: the dbExec calls of a client carry pairwise different requestIds,
\* also across stop() and a later start(), and the pending-request table
\* holds for every unsettled call the one entry of its id.
C20_RequestIdsNeverReused ==
    /\ \A i, j \in DOMAIN execCalls :
           i # j => execCalls[i].requestId # execCalls[j].requestId
    /\ \A i \in DOMAIN execCalls :
           ~execCalls[i].settled =>
               /\ execCalls[i].requestId \in DOMAIN client.pendingExecRequests
               /\ client.pendingExecRequests[execCalls[i].requestId] = i

\* a call made before a stop() is still pending when a call is made after the
\* next start()
C20_PendingAcrossRestart ==
    /\ klass = "tabsync"
    /\ isRunning
    /\ \E i, j \in DOMAIN execCalls :
           /\ execCalls[i].stops < execCalls[j].stops
           /\ ~execCalls[i].settled
           /\ ~execCalls[j].settled

(***************************************************************************)
(* Claims about the virtual ports (SpecPort).                              *)
(***************************************************************************)
\* C21: every payload a virtual port hands to its listeners is the payload of
\* a toClient envelope posted on the topic for the port's own clientId; the
\* other envelopes its handler is called with are not handed on.
C21_OnlyOwnToClient ==
    \A t \in Tabs :
        /\ \A i \in 1..Len(delivered[t]) :
               ShimToClient(t, delivered[t][i]) \in posted \cap seen[t]
        /\ Len(delivered[t]) <= Len(reached[t])
        /\ Len(reached[t]) <=
               Cardinality({m \in seen[t] : m.t = "__shim_toClient" /\ m.clientId = t})

\* two listening ports were both called with a reply for client 1 and with a
\* hello, and only the port of client 1 handed the reply on
C21_ReplySeenByBoth ==
    /\ delivered[1] = <<SyncData(1)>>
    /\ delivered[2] = <<>>
    /\ vport[2].listeners
    /\ ShimToClient(1, SyncData(1)) \in seen[2]
    /\ \E m \in seen[2] : m.t = "__shim_hello"

\* C22: a closed port has posted exactly one disconnect envelope with its
\* clientId, however often close() was called, and its handler is unsubscribed;
\* from then on no event is dispatched to its listeners and postMessage posts
\* no envelope.
C22_CloseOnceThenSilent ==
    /\ [](\A t \in Tabs :
             /\ portCalls.disconnects[t] = IF vport[t].closed THEN 1 ELSE 0
             /\ vport[t].closed <=> ShimDisconnect(t) \in posted
             /\ vport[t].closed => ~vport[t].subscribed)
    /\ [][\A t \in Tabs :
             vport[t].closed =>
                 /\ reached'[t] = reached[t]
                 /\ delivered'[t] = delivered[t]
                 /\ \A m \in posted' \ posted :
                        ~(m.t = "__shim_toLeader" /\ m.clientId = t)]_vars

\* a listening port took its first reply, was closed twice, was called with
\* postMessage, and the second reply went by undelivered
C22_ClosedTwiceStaysSilent ==
    \E t \in Tabs :
        /\ vport[t].listeners
        /\ portCalls.close[t] = 2
        /\ delivered[t] = <<SyncData(1)>>
        /\ ShimToClient(t, SyncData(2)) \in posted
        /\ rxClient[t] = <<>>
        /\ portCalls.post[t] = 1
        /\ ShimToLeader(t, Sync(1)) \notin posted

\* C23: a payload that reached a client-side port before its consumer attached
\* a listener is kept and handed on in receipt order once the consumer has
\* attached one: with a listener attached, what was handed on is what reached
\* the port.
C23_EarlyMessagesKept ==
    \A t \in Tabs : vport[t].listeners => delivered[t] = reached[t]

(***************************************************************************)
(* Claims about leader hosts whose worker fails (SpecFailure).             *)
(***************************************************************************)
\* C25: when the worker of a leader host signals an error, and when its
\* construction throws, the host broadcasts ready to every tab whose call
\* has not passed its wait for ready; and once a failed host has relayed everything, every client that
\* turned to it has been handed an error response by its port.
C25_FailureStillReadyAndReported ==
    /\ [][\A h \in Tabs :
             \/ /\ hosts[h].relay = "wired"
                /\ hosts[h].out # <<>>
                /\ Head(hosts[h].out) = ShimError
                /\ hosts'[h].out = Tail(hosts[h].out)
             \/ /\ hosts[h].phase # "threw"
                /\ hosts'[h].phase = "threw"
             => \A u \in Tabs :
                   pc[u] = "hasLeader" => leaderReady'[u] \/ readyInFlight'[u]]_vars
    /\ [](\A h \in Tabs :
             (hosts[h].phase = "failed" /\ hosts[h].inq = <<>> /\ hosts[h].out = <<>>)
             => \A t \in Tabs :
                   ( /\ pc[t] = "done"
                     /\ \/ t \in DOMAIN hosts[h].pendMsgs
                        \/ \E i \in 1..Len(hosts[h].pend) : hosts[h].pend[i] = t )
                   => \E i \in 1..Len(received[t]) : received[t][i] = ErrorResponse)

(***************************************************************************)
(* Claims about the bootstrap of a leader host (SpecBoot).                 *)
(***************************************************************************)
\* C24: the requests of one client reach the worker's handler in the order in
\* which toWorker observed them, each at most once, whether the bootstrap held
\* them back before the connect, the worker-side port held them back before it
\* could receive, or they were handed on directly; once the worker has started
\* and nothing is on its way, a connected client's requests were all handled.
C24_RelayedInObservedOrder ==
    \A c \in Tabs :
        /\ \A i, j \in 1..Len(HandledOf(c)) :
               i < j => HandledOf(c)[i] < HandledOf(c)[j]
        /\ \A i \in 1..Len(HandledOf(c)) :
               HandledOf(c)[i] \in 1..Len(RequestsOf(c))
        /\ ( /\ boot.phase = "started"
             /\ boot.inq = <<>>
             /\ c \in DOMAIN boot.clients
             /\ ObservedOf(c, "__shim_disconnect") = <<>> )
           => HandledOf(c) = RequestsOf(c)

\* of three requests of one client the first was held back before the connect
\* and the second before the worker started, and all three were handled
C24_HeldBackThenHandled ==
    \E c \in Tabs :
        /\ {<<c, 1>>, <<c, 2>>} \subseteq early
        /\ <<c, 3>> \notin early
        /\ HandledOf(c) = <<1, 2, 3>>

(***************************************************************************)
(* Claims about batches a store rejects (SpecFaulty).                      *)
(***************************************************************************)
\* the last entry of a client's apply log
LastApplied(log) == log[Len(log)]

\* C26: when the store of a client rejects a record of an incoming batch, the
\* local store is left as it was, the error callback is called, the
\* tables-changed callback is not, and the client stays started; a batch with no
\* rejected record is applied whole and reported, whatever failed before it
C26_FailedBatchAborted ==
    [][\A t \in Clients :
          Len(applyLog'[t]) > Len(applyLog[t]) =>
              LET e == LastApplied(applyLog'[t])
                  batch == Filtered(t, e.data)
              IN  IF \E c \in batch : Key(c) \in rejects[t]
                  THEN /\ localDb'[t] = localDb[t]
                       /\ e.threw /\ e.onError
                       /\ e.tables = {}
                       /\ cStarted'[t]
                  ELSE /\ \A c \in batch : \E r \in localDb'[t] : Key(r) = Key(c)
                       /\ ~e.threw /\ ~e.onError
                       /\ e.tables = Touched(batch)]_vars

\* the store of a client rejected a batch and left it out whole, and the client
\* then applied the batch of a later broadcast
C26_AppliedAfterFailure ==
    \E t \in Clients : \E i \in 1..(Len(applyLog[t]) - 1) :
        LET e1 == applyLog[t][i]
            e2 == applyLog[t][i + 1]
        IN  /\ e1.src = "changes-applied" /\ e1.threw /\ e1.after = e1.before
            /\ e2.src = "changes-applied" /\ ~e2.threw /\ e2.inserted # {}
            /\ e2.inserted \cap e1.data = {}
            /\ e2.inserted \subseteq {r \in e2.data : \E x \in localDb[t] : Key(x) = Key(r)}

\* C27: the worker applies the records of a "changes" broadcast in one
\* transaction and then broadcasts "changes-applied" with the same records and the
\* sender's sourceTabId to every subscribed client; when its store rejects a
\* record nothing of the batch is stored and nothing is broadcast, and the batches
\* after it are handled the same way
C27_AppliedThenPassedOn ==
    [][(dbQueue # <<>> /\ Head(dbQueue).op = "changes" /\ dbQueue' = Tail(dbQueue)) =>
          LET job == Head(dbQueue)
          IN  IF \E c \in job.data : Key(c) \in rejects[0]
              THEN workerDb' = workerDb /\ chanIn' = chanIn
              ELSE /\ \A c \in job.data : \E r \in workerDb' : Key(r) = Key(c)
                   /\ \A t \in Clients :
                          chanIn'[t] =
                              IF cStarted[t]
                              THEN Append(chanIn[t], ChangesApplied(job.data, job.client))
                              ELSE chanIn[t]]_vars

\* the worker's store rejected the first batch of a client, so none of it is in
\* the store, and the worker has stored the client's second batch and passed it on
C27_PassedOnAfterFailure ==
    \E t \in Clients :
        /\ Len(changesSent[t]) = 2
        /\ \A i \in 1..Len(dbQueue) : dbQueue[i].op # "changes"
        /\ \E c \in changesSent[t][1] : Key(c) \in rejects[0]
        /\ \A c \in changesSent[t][1] : ~\E r \in workerDb : Key(r) = Key(c)
        /\ \A c \in changesSent[t][2] : \E r \in workerDb : Key(r) = Key(c)
        /\ \E u \in Clients \ {t} : \E i \in 1..Len(applyLog[u]) :
               /\ applyLog[u][i].data = changesSent[t][2]
               /\ applyLog[u][i].inserted = changesSent[t][2]

(***************************************************************************)
(* Claims about terminate() of a shim handle (SpecTerminate).              *)
(***************************************************************************)
\* C28: once terminate() was called on the handle of a tab, the tab's virtual
\* port is closed, its elector is dead and nothing of the tab is subscribed to the
\* topic any more, the relay of a leader host it started included; however often
\* terminate() is called, the tab posts one disconnect envelope at most
C28_TerminateLeavesNothing ==
    \A t \in Tabs :
        portCalls.terminate[t] > 0 =>
            /\ vport[t].closed
            /\ vport[t].electorDead
            /\ ~vport[t].subscribed
            /\ ~vport[t].readySub
            /\ ~vport[t].chanOpen
            /\ ~vport[t].relay
            /\ portCalls.disconnects[t] <= 1

(***************************************************************************)
(* Claims about overlapping triggerSync() calls (SpecOverlap).             *)
(***************************************************************************)
\* C29: a "changes" broadcast of a client carries exactly the records of its own
\* site above lastBroadcastVersion and moves the mark to their highest version,
\* and no record is carried by two "changes" broadcasts of the client, also when
\* triggerSync() is called again before an earlier call has finished
C29_EachChangeSentOnce ==
    /\ [](\A t \in Clients : \A i, j \in 1..Len(changesSent[t]) :
             i # j => changesSent[t][i] \cap changesSent[t][j] = {})
    /\ [][\A t \in Clients :
             Len(changesSent'[t]) > Len(changesSent[t]) =>
                 /\ changesSent'[t][Len(changesSent'[t])] =
                        ChangesAfter(localDb[t], Site(t), lastBroadcastVersion[t])
                 /\ lastBroadcastVersion'[t] =
                        MaxVersion(changesSent'[t][Len(changesSent'[t])])]_vars

(***************************************************************************)
(* Claims about concurrent exec requests (SpecRemoteWrite).                *)
(***************************************************************************)
\* C30: no record written in the worker's store is carried by two of the
\* "changes-applied" broadcasts that follow exec requests, also when the worker
\* handles several exec requests at a time
C30_ExecChangeBroadcastOnce ==
    \A i, j \in 1..Len(wLog) :
        (i # j /\ wLog[i].kind = "broadcast" /\ wLog[j].kind = "broadcast") =>
            wLog[i].data \cap wLog[j].data = {}

\* C31: the client's own site id is known before start() acquires a worker
\* handle, subscribes to the broadcast topic or sends the initial sync request,
\* and the client is marked started only once that request was sent
C31_SiteIdBeforeAcquire ==
    /\ (made.handles > 0 \/ made.subscriptions > 0 \/ made.syncs > 0) =>
           client.siteId # "undefined"
    /\ client.isStarted => made.syncs > 0

(***************************************************************************)
(* Claims about the initialization of a worker (SpecRestart).              *)
(***************************************************************************)
\* C32: initialize() leaves lastDbVersion at the highest db_version among the
\* records of the store that the worker's own site wrote, and at 0 when the store
\* holds none
C32_InitializedToOwnMaximum ==
    [][inits' > inits =>
           lastDbVersion' = DbVersion({r \in workerDb : r.site_id = WorkerSite})]_vars

(***************************************************************************)
(* Claims about sync-data replies (SpecUnregistered).                      *)
(***************************************************************************)
\* C33: when a started client handles a sync-data reply, whether or not a
\* sync-data handler is registered, the records of the reply that other sites
\* wrote are in its local store afterwards and lastBroadcastVersion is the
\* highest db_version of the reply
C33_SyncDataAlwaysApplied ==
    [][\A t \in Clients :
          (/\ cStarted[t]
           /\ portIn[t] # <<>>
           /\ portIn'[t] = Tail(portIn[t])
           /\ Head(portIn[t]).type = "sync-data"
           /\ Head(portIn[t]).data # {}) =>
              LET data == Head(portIn[t]).data
              IN  /\ \A c \in data :
                         c.site_id # Site(t) => \E r \in localDb'[t] : Key(r) = Key(c)
                  /\ lastBroadcastVersion'[t] = MaxVersion(data)]_vars

(***************************************************************************)
(* Claims about the start of the tabs of one topic (SpecStartup).          *)
(***************************************************************************)
\* C34: once every tab holds its shim handle, a leader hosts the worker with its
\* relay wired and nothing is left in flight, the hosted worker has received a
\* connect for the clientId of every tab, in whatever order the tabs started
\* (stated for the runs that have come to rest)
C34_EveryHandleConnected ==
    (Quiescent /\ \A t \in Tabs : pc[t] = "done") =>
        \A h \in Tabs :
            (isLeader[h] /\ hosts[h].relay = "wired") =>
                \A t \in Tabs : t \in DOMAIN hosts[h].clients

(***************************************************************************)
(* Claims about what triggerSync() sends (SpecPropagate).                  *)
(***************************************************************************)
\* C35: a change record of a client's own site that no "changes" broadcast of the
\* client has carried is above lastBroadcastVersion, so the next triggerSync()
\* includes it, also when a sync-data reply was handled since it was written
C35_UnsentChangeAboveMark ==
    \A t \in Clients : \A r \in localDb[t] :
        r.site_id = Site(t) =>
            \/ \E i \in 1..Len(changesSent[t]) : r \in changesSent[t][i]
            \/ r.db_version > lastBroadcastVersion[t]

\* the bootstrap has handled the disconnect of client c
DisconnectHandled(c) ==
    /\ ObservedOf(c, "__shim_disconnect") # <<>>
    /\ \A i \in 1..Len(boot.inq) :
           ~(boot.inq[i].cmd = "__disconnect" /\ boot.inq[i].clientId = c)

\* the worker-side ports made for client c
PortsOf(w, c) == {i \in 1..Len(w.ports) : w.ports[i].id = c}

\* C38: once the bootstrap has handled the disconnect of a client whose connect
\* is still pending, no step makes a port for that client or puts it among the
\* connected clients, the drain of the pending connects included
C38_DisconnectedNeverConnected ==
    [][\A c \in Tabs :
          (DisconnectHandled(c) /\ \E i \in 1..Len(boot.pend) : boot.pend[i] = c) =>
              /\ PortsOf(boot', c) = PortsOf(boot, c)
              /\ c \notin DOMAIN boot'.clients]_vars


\* how often the worker has answered request n of client c
TimesHandled(c, n) ==
    Cardinality({i \in 1..Len(HandledOf(c)) : HandledOf(c)[i] = n})

\* C36: when toWorker has observed two hellos of one client, each request the
\* client posts afterwards is handled by the worker at most once and its reply
\* is posted to the client at most once, and exactly once when the worker has
\* started, nothing is on its way and the client has not disconnected
C36_TwoHellosHandledOnce ==
    \A c \in Tabs :
        Len(ObservedOf(c, "__shim_hello")) = 2 =>
            /\ \A n \in 1..Len(RequestsOf(c)) : TimesHandled(c, n) <= 1
            /\ ( /\ boot.phase = "started"
                 /\ boot.inq = <<>>
                 /\ ObservedOf(c, "__shim_disconnect") = <<>> )
               => \A n \in 1..Len(RequestsOf(c)) : TimesHandled(c, n) = 1

\* two ports were made for one client, whose first request was held back and
\* whose second was handed on directly, and both were answered
C36_TwoPortsTwoRequests ==
    \E c \in Tabs :
        /\ Cardinality(PortsOf(boot, c)) = 2
        /\ <<c, 1>> \in early
        /\ <<c, 2>> \notin early
        /\ HandledOf(c) = <<1, 2>>


(***************************************************************************)
(* Claims about what writes lastBroadcastVersion (SpecFrame).              *)
(***************************************************************************)
\* client t handles the next response on its port, which is of one of the types
HandlesResponse(t, types) ==
    /\ portIn[t] # <<>>
    /\ Head(portIn[t]).type \in types
    /\ portIn'[t] = Tail(portIn[t])

\* C37: a step in which a client handles a changes-applied broadcast, an
\* exec-reply, an error or a ready envelope leaves its lastBroadcastVersion as
\* it was; the version changes only in a step that handles a sync-data reply,
\* in a triggerSync that broadcasts changes, and in stop()
C37_OnlyThreeWriters ==
    [][\A t \in Clients :
          /\ ( \/ HandlesResponse(t, {"exec-reply", "error", "ready"})
               \/ chanIn[t] # <<>> /\ chanIn'[t] = Tail(chanIn[t]) )
             => lastBroadcastVersion'[t] = lastBroadcastVersion[t]
          /\ lastBroadcastVersion'[t] # lastBroadcastVersion[t]
             => \/ HandlesResponse(t, {"sync-data"})
                \/ Len(changesSent'[t]) > Len(changesSent[t])
                \/ stopCalls' > stopCalls /\ cStarted[t] /\ ~cStarted'[t]]_vars

\* a client whose version is above 0 has handled a ready and an error envelope,
\* an exec-reply and a changes-applied broadcast with data
C37_AllFourHandled ==
    \E t \in Clients :
        /\ lastBroadcastVersion[t] > 0
        /\ portIn[t] = <<>>
        /\ chanIn[t] = <<>>
        /\ \E i \in 1..Len(wLog) : wLog[i].kind = "ready" /\ wLog[i].to = {t}
        /\ \E i \in 1..Len(wLog) : wLog[i].kind = "error" /\ wLog[i].to = {t}
        /\ \E i \in 1..Len(wLog) : wLog[i].kind = "reply"
        /\ \E i \in 1..Len(applyLog[t]) : applyLog[t][i].src = "changes-applied"


\* C39: the pending-request table holds the entry of a dbExec call only while
\* the promise of that call is unsettled: no settled call, whatever settled it,
\* still has its requestId in client.pendingExecRequests
C39_PendingOnlyWhileUnsettled ==
    \A i \in 1..Len(execCalls) :
        execCalls[i].settled =>
            ~( /\ execCalls[i].requestId \in DOMAIN client.pendingExecRequests
               /\ client.pendingExecRequests[execCalls[i].requestId] = i )

====
